---- MODULE Spec2Model ----
(***************************************************************************)
(* Model of bokchoy::PaymentService (src/bokchoy/src/lib.rs) and of the    *)
(* WxPayJsapi provider adapter (src/bokchoy/src/psp/wxpay_jsapi.rs).       *)
(*                                                                         *)
(* The relational store is modelled as three committed relations           *)
(* (payments, refunds, events) plus, per connection, the rows the open     *)
(* transaction has written and not yet committed.  Every handler is cut at *)
(* its await points: one action per SQL statement or adapter call.  A      *)
(* panic (unwrap/expect/panic!/todo!) leaves the connection in "panicked", *)
(* from where the transaction can only be rolled back.                     *)
(***************************************************************************)
EXTENDS Integers, Sequences, FiniteSets, TLC

\* ------------------------------------------------------------------ bounds

\* Operations committed in one behaviour of Spec; also bounds the ids handed out.
MaxOps == 4
\* Operations committed in one behaviour of SpecConc (two connections).
MaxConcOps == 2
\* Payment ids, and refund ids, handed out in one behaviour.
MaxIds == 3
\* OrderService: calls that may still run, orders, and how far the clock goes.
MaxOrderOps == 3
MaxOrders == 2
MaxNow == 2

\* --------------------------------------------------------------- constants

NULL == "NULL"

\* enum Provider, and the adapters the builder registers (psp exports one).
Provider == {"WxpayJsapi", "WxpayNative"}
Registered == {"WxpayJsapi"}

PaymentStatus == {"Pending", "Success", "Failed", "Refunded"}
RefundStatus == {"Pending", "Success", "Failed"}
PaymentEventKind == {"PaymentCreate", "PaymentCallback", "PaymentRefund", "RefundCallback"}

\* Inputs of the callers: amounts are i64 and are not validated by the code.
PayAmounts == {100}
RefundAmounts == {0 - 40, 40, 100}
\* Values the gateway assigns.
TradeNos == {"T1", "T2"}
RefundNos == {"RF1"}
Times == {"t1", "t2"}
\* What the gateway can report about a refund.
RefundStatusStrings == {"SUCCESS", "CLOSED", "PROCESSING"}
\* SQL now()
Now == "now"

\* Configuration held by one WxPayJsapi instance.
AppId == "appid"
MchId == "mchid"
WxpayPublicKeyId == "PUB_KEY_ID"
WxpayPublicKey == "wxpay_key"
ApiV3Key == "apiv3_key_0123456789abcdef012345"

\* Sizes fixed by Aes256Gcm: a 32-byte key, a 96-bit nonce.
KeySize == 32
NonceSize == 12

\* ------------------------------------------------------------------ crypto
\* RSA-PKCS#1v1.5/SHA-256 and AES-256-GCM are library code: a signature is
\* the term (signer, message), a ciphertext the term (key, nonce, aad, plain).

\* Fault: the signature is base64-decoded but never verified against the key.
verify_response_Unchecked(key, sign, timestamp, nonce, body) ==
    sign.b64

\* U+FFFD, and two bytes that occur in no UTF-8 text.
REPLACEMENT_CHARACTER == 65533
InvalidBytes == {254, 255}

\* String::from_utf8_lossy on a body: every byte that is not UTF-8 becomes
\* U+FFFD, valid text is kept.  `tail` holds what follows the JSON text.
from_utf8_lossy(body) ==
    [body EXCEPT !.tail = [i \in DOMAIN body.tail |->
                             IF body.tail[i] \in InvalidBytes
                             THEN REPLACEMENT_CHARACTER ELSE body.tail[i]]]

\* utils.rs verify_response: canonical string "{timestamp}\n{nonce}\n{body}\n"
\* with the body read by from_utf8_lossy, base64-decode the signature, verify
\* against the key.
verify_response(key, sign, timestamp, nonce, body) ==
    /\ sign.b64
    /\ sign.signer = key
    /\ sign.msg = <<timestamp, nonce, from_utf8_lossy(body)>>

\* Fault: the ciphertext is deciphered without authenticating key, nonce and aad.
decrypt_Unauthenticated(res, key) ==
    [panic |-> FALSE, ok |-> res.ciphertext.b64, plain |-> res.ciphertext.plain]

\* EncryptedResource::decrypt.  Key::from_slice and Nonce::from_slice panic on
\* a slice of another length; then base64-decode, AEAD-decrypt under (key,
\* nonce, aad), from_utf8: Err(()) on any failure.
decrypt(res, key) ==
    IF Len(key) # KeySize \/ Len(res.nonce) # NonceSize
    THEN [panic |-> TRUE, ok |-> FALSE, plain |-> res.ciphertext.plain]
    ELSE IF /\ res.ciphertext.b64
            /\ res.ciphertext.intact
            /\ res.ciphertext.key = key
            /\ res.ciphertext.nonce = res.nonce
            /\ res.ciphertext.aad = res.associated_data
            /\ res.ciphertext.plain.utf8
    THEN [panic |-> FALSE, ok |-> TRUE, plain |-> res.ciphertext.plain]
    ELSE [panic |-> FALSE, ok |-> FALSE, plain |-> res.ciphertext.plain]

\* ---------------------------------------------------------------- adapters

Panic == [panic |-> TRUE]

\* http::Response::builder().header("Content-Type", "application/json")
\*     .body(json!({}).to_string())
Ack == [content_type |-> "application/json", body |-> "{}"]

\* No response has been built.
NoResponse == [content_type |-> NULL, body |-> NULL]

\* A callback adapter panicked after calling, in this order, the functions in
\* `calls` (of verify_response and EncryptedResource::decrypt).
Stopped(calls) == [panic |-> TRUE, calls |-> calls]

\* Fault: the resource's trade_state is not looked at.
pay_callback_AnyTradeState(req) ==
    LET body == req.body
        plain == decrypt(body.resource, ApiV3Key)
        resource == plain.plain
        verified == <<"verify_response">>
        decrypted == <<"verify_response", "decrypt">>
    IN  IF ~body.json THEN Stopped(<<>>)
        ELSE IF ~req.headers_present THEN Stopped(<<>>)
        ELSE IF req.serial # WxpayPublicKeyId THEN Stopped(<<>>)
        ELSE IF ~verify_response(WxpayPublicKey, req.signature,
                                 req.timestamp, req.nonce, body) THEN Stopped(verified)
        ELSE IF body.event_type # "TRANSACTION.SUCCESS" THEN Stopped(verified)
        ELSE IF body.resource_type # "encrypt-resource" THEN Stopped(verified)
        ELSE IF ~body.resource.shape THEN Stopped(verified)
        ELSE IF ~plain.ok THEN Stopped(decrypted)
        ELSE IF ~resource.parse THEN Stopped(decrypted)
        ELSE IF resource.appid # AppId \/ resource.mchid # MchId THEN Stopped(decrypted)
        ELSE [panic |-> FALSE,
              calls |-> decrypted,
              id |-> resource.out_trade_no,
              provider_trade_no |-> resource.transaction_id,
              success_at |-> resource.success_time,
              res |-> Ack]

\* Fault: the resource is decrypted first, the signature verified afterwards.
pay_callback_DecryptFirst(req) ==
    LET body == req.body
        plain == decrypt(body.resource, ApiV3Key)
        resource == plain.plain
    IN  IF ~body.json THEN Stopped(<<>>)
        ELSE IF ~req.headers_present THEN Stopped(<<>>)
        ELSE IF req.serial # WxpayPublicKeyId THEN Stopped(<<>>)
        ELSE IF body.event_type # "TRANSACTION.SUCCESS" THEN Stopped(<<>>)
        ELSE IF body.resource_type # "encrypt-resource" THEN Stopped(<<>>)
        ELSE IF ~body.resource.shape THEN Stopped(<<>>)
        ELSE IF ~plain.ok THEN Stopped(<<"decrypt">>)
        ELSE IF ~verify_response(WxpayPublicKey, req.signature,
                                 req.timestamp, req.nonce, body)
             THEN Stopped(<<"decrypt", "verify_response">>)
        ELSE IF ~resource.parse THEN Stopped(<<"decrypt", "verify_response">>)
        ELSE IF resource.appid # AppId \/ resource.mchid # MchId
             THEN Stopped(<<"decrypt", "verify_response">>)
        ELSE IF resource.trade_state # "SUCCESS"
             THEN Stopped(<<"decrypt", "verify_response">>)
        ELSE [panic |-> FALSE,
              calls |-> <<"decrypt", "verify_response">>,
              id |-> resource.out_trade_no,
              provider_trade_no |-> resource.transaction_id,
              success_at |-> resource.success_time,
              res |-> Ack]

\* WxPayJsapi::pay_callback.  The first failing check panics.
pay_callback(req) ==
    LET body == req.body
        plain == decrypt(body.resource, ApiV3Key)
        resource == plain.plain
        verified == <<"verify_response">>
        decrypted == <<"verify_response", "decrypt">>
    IN  IF ~body.json THEN Stopped(<<>>)                 \* from_http_req unwrap
        ELSE IF ~req.headers_present THEN Stopped(<<>>)
        ELSE IF req.serial # WxpayPublicKeyId THEN Stopped(<<>>)
        ELSE IF ~verify_response(WxpayPublicKey, req.signature,
                                 req.timestamp, req.nonce, body) THEN Stopped(verified)
        ELSE IF body.event_type # "TRANSACTION.SUCCESS" THEN Stopped(verified)
        ELSE IF body.resource_type # "encrypt-resource" THEN Stopped(verified)
        ELSE IF ~body.resource.shape THEN Stopped(verified)
        ELSE IF ~plain.ok THEN Stopped(decrypted)
        ELSE IF ~resource.parse THEN Stopped(decrypted)
        ELSE IF resource.appid # AppId \/ resource.mchid # MchId THEN Stopped(decrypted)
        ELSE IF resource.trade_state # "SUCCESS" THEN Stopped(decrypted)
        ELSE [panic |-> FALSE,
              calls |-> decrypted,
              id |-> resource.out_trade_no,
              provider_trade_no |-> resource.transaction_id,
              success_at |-> resource.success_time,
              res |-> Ack]

\* Fault: only "SUCCESS" is mapped; every other refund_status stays Pending.
refund_status_of_SuccessOnly(s) ==
    IF s = "SUCCESS" THEN "Success" ELSE "Pending"

\* Fault: ABNORMAL is not mapped and falls to the default arm.
refund_status_of_AbnormalPending(s) ==
    IF s = "SUCCESS" THEN "Success"
    ELSE IF s = "CLOSED" THEN "Failed"
    ELSE "Pending"

\* match resource.refund_status.as_str() in refund_callback
refund_status_of(s) ==
    IF s = "SUCCESS" THEN "Success"
    ELSE IF s \in {"CLOSED", "ABNORMAL"} THEN "Failed"
    ELSE "Pending"

\* Fault: the signature is verified before the serial is compared.
refund_callback_VerifyFirst(req) ==
    LET body == req.body
        plain == decrypt(body.resource, ApiV3Key)
        resource == plain.plain
        verified == <<"verify_response">>
        decrypted == <<"verify_response", "decrypt">>
    IN  IF ~body.json THEN Stopped(<<>>)
        ELSE IF ~req.headers_present THEN Stopped(<<>>)
        ELSE IF ~verify_response(WxpayPublicKey, req.signature,
                                 req.timestamp, req.nonce, body) THEN Stopped(verified)
        ELSE IF req.serial # WxpayPublicKeyId THEN Stopped(verified)
        ELSE IF body.resource_type # "encrypt-resource" THEN Stopped(verified)
        ELSE IF ~body.resource.shape THEN Stopped(verified)
        ELSE IF ~plain.ok THEN Stopped(decrypted)
        ELSE IF ~resource.parse THEN Stopped(decrypted)
        ELSE IF resource.mchid # MchId THEN Stopped(decrypted)
        ELSE [panic |-> FALSE,
              calls |-> decrypted,
              refund_id |-> resource.out_refund_no,
              provider_refund_no |-> resource.refund_id,
              success_at |-> resource.success_time,
              status |-> refund_status_of(resource.refund_status),
              res |-> Ack]

\* WxPayJsapi::refund_callback.
refund_callback(req) ==
    LET body == req.body
        plain == decrypt(body.resource, ApiV3Key)
        resource == plain.plain
        verified == <<"verify_response">>
        decrypted == <<"verify_response", "decrypt">>
    IN  IF ~body.json THEN Stopped(<<>>)
        ELSE IF ~req.headers_present THEN Stopped(<<>>)
        ELSE IF req.serial # WxpayPublicKeyId THEN Stopped(<<>>)
        ELSE IF ~verify_response(WxpayPublicKey, req.signature,
                                 req.timestamp, req.nonce, body) THEN Stopped(verified)
        ELSE IF body.resource_type # "encrypt-resource" THEN Stopped(verified)
        ELSE IF ~body.resource.shape THEN Stopped(verified)
        ELSE IF ~plain.ok THEN Stopped(decrypted)
        ELSE IF ~resource.parse THEN Stopped(decrypted)
        ELSE IF resource.mchid # MchId THEN Stopped(decrypted)
        ELSE [panic |-> FALSE,
              calls |-> decrypted,
              refund_id |-> resource.out_refund_no,
              provider_refund_no |-> resource.refund_id,
              success_at |-> resource.success_time,
              status |-> refund_status_of(resource.refund_status),
              res |-> Ack]

\* WxPayJsapi::pay on the gateway's answer: panics on a missing openid, a
\* transport error, a non-2xx status (todo!), a body that is not JSON or has
\* no prepay_id.
pay_adapter(openid, gw) ==
    IF ~openid THEN Panic
    ELSE IF gw.transport_error THEN Panic
    ELSE IF ~(gw.status >= 200 /\ gw.status < 300) THEN Panic
    ELSE IF ~gw.json THEN Panic
    ELSE IF ~gw.fields THEN Panic
    ELSE [panic |-> FALSE, http_res |-> gw.status]

\* WxPayJsapi::refund on the gateway's answer.
refund_adapter(gw) ==
    IF gw.transport_error THEN Panic
    ELSE IF ~gw.json THEN Panic
    ELSE IF gw.status >= 200 /\ gw.status < 300
         THEN IF ~gw.fields THEN Panic
              ELSE [panic |-> FALSE,
                    provider_refund_no |-> gw.refund_id,
                    status |-> gw.refund_status]
    ELSE Panic

\* ------------------------------------------------------------------ inputs
\* Webhook requests as the gateway (or anybody else) can send them.

Signature(signer, timestamp, nonce, body) ==
    [b64 |-> TRUE, signer |-> signer, msg |-> <<timestamp, nonce, body>>]

\* What AES-256-GCM encryption yields, base64-encoded.
Encrypt(plain, key, nonce, aad) ==
    [b64 |-> TRUE, intact |-> TRUE, key |-> key, nonce |-> nonce, aad |-> aad,
     plain |-> plain]

Ciphertext(plain) ==
    Encrypt(plain, ApiV3Key, "nonce_000001", "transaction")

Resource(plain) ==
    [shape |-> TRUE, ciphertext |-> Ciphertext(plain), nonce |-> "nonce_000001",
     associated_data |-> "transaction"]

Body(event_type, plain) ==
    [json |-> TRUE, event_type |-> event_type, resource_type |-> "encrypt-resource",
     resource |-> Resource(plain), tail |-> <<>>]

\* A request carrying `body`, signed by the platform key.
Webhook(body) ==
    [headers_present |-> TRUE, timestamp |-> "ts1", nonce |-> "hn1",
     serial |-> WxpayPublicKeyId,
     signature |-> Signature(WxpayPublicKey, "ts1", "hn1", body),
     body |-> body]

PlainResource(pid, tno, t) ==
    [utf8 |-> TRUE, parse |-> TRUE, appid |-> AppId, mchid |-> MchId, out_trade_no |-> pid,
     transaction_id |-> tno, trade_state |-> "SUCCESS", success_time |-> t]

PlainRefundResource(rid, rno, st, t) ==
    [utf8 |-> TRUE, parse |-> TRUE, mchid |-> MchId, out_refund_no |-> rid, refund_id |-> rno,
     refund_status |-> st, success_time |-> t]

\* The ways one request can be wrong in transit (headers, signature).
TransportDefects(h, otherBody) ==
    { [h EXCEPT !.headers_present = FALSE],
      [h EXCEPT !.serial = "OTHER_KEY_ID"],
      [h EXCEPT !.signature.signer = "other_key"],
      [h EXCEPT !.signature.b64 = FALSE],
      [h EXCEPT !.timestamp = "ts2"],
      [h EXCEPT !.nonce = "hn2"],
      [h EXCEPT !.body = otherBody],
      [h EXCEPT !.body.json = FALSE] }

\* The ways a body can be unreadable although the platform signed it.
BodyDefects(b) ==
    { [b EXCEPT !.json = FALSE],
      [b EXCEPT !.resource.shape = FALSE],
      [b EXCEPT !.resource.ciphertext.b64 = FALSE],
      [b EXCEPT !.resource.ciphertext.intact = FALSE],
      [b EXCEPT !.resource.ciphertext.key = "other_key_0123456789abcdef012345"],
      [b EXCEPT !.resource.nonce = "nonce_000002"],
      [b EXCEPT !.resource.nonce = "nonce_1"],
      [b EXCEPT !.resource.ciphertext.plain.utf8 = FALSE],
      [b EXCEPT !.resource.associated_data = "refund"],
      [b EXCEPT !.resource.ciphertext.plain.parse = FALSE] }

\* Signed, readable bodies the adapter still refuses.
ContentDefects(b) ==
    { [b EXCEPT !.resource_type = "plain"],
      [b EXCEPT !.resource.ciphertext.plain.mchid = "other_mchid"] }

PayWebhooks(pids) ==
    LET good(p, tno, t) == Body("TRANSACTION.SUCCESS", PlainResource(p, tno, t))
        base(p) == good(p, "T1", "t1")
    IN  { Webhook(good(p, tno, t)) : p \in pids, tno \in TradeNos, t \in Times }
        \cup TransportDefects(Webhook(base(1)), good(1, "T2", "t2"))
        \cup { Webhook(b) : b \in BodyDefects(base(1)) \cup ContentDefects(base(1)) }
        \cup { Webhook([base(1) EXCEPT !.event_type = "REFUND.SUCCESS"]),
               Webhook([base(1) EXCEPT !.resource.ciphertext.plain.appid = "other_appid"]),
               Webhook([base(1) EXCEPT !.resource.ciphertext.plain.trade_state = "CLOSED"]) }

RefundWebhooks(rids) ==
    LET good(r, st, t) == Body("REFUND." \o st, PlainRefundResource(r, "RF1", st, t))
        base(r) == good(r, "SUCCESS", "t1")
    IN  { Webhook(good(r, "SUCCESS", "t1")) : r \in rids }
        \cup { Webhook(good(r, st, NULL)) : r \in rids, st \in RefundStatusStrings }
        \cup TransportDefects(Webhook(base(1)), good(1, "CLOSED", NULL))
        \cup { Webhook(b) : b \in BodyDefects(base(1)) \cup ContentDefects(base(1)) }

\* What the gateway can answer to an outbound request.
GatewayAnswer(transport_error, status, json, fields, refund_status) ==
    [transport_error |-> transport_error, status |-> status, json |-> json,
     fields |-> fields, refund_id |-> "RF1", refund_status |-> refund_status]

PayGateway ==
    { GatewayAnswer(TRUE, 0, FALSE, FALSE, "-"),
      GatewayAnswer(FALSE, 200, TRUE, TRUE, "-"),
      GatewayAnswer(FALSE, 200, FALSE, FALSE, "-"),
      GatewayAnswer(FALSE, 200, TRUE, FALSE, "-"),
      GatewayAnswer(FALSE, 500, TRUE, FALSE, "-") }

RefundGateway ==
    { GatewayAnswer(TRUE, 0, FALSE, FALSE, "-"),
      GatewayAnswer(FALSE, 200, TRUE, TRUE, "SUCCESS"),
      GatewayAnswer(FALSE, 200, TRUE, TRUE, "PROCESSING"),
      GatewayAnswer(FALSE, 200, FALSE, FALSE, "-"),
      GatewayAnswer(FALSE, 200, TRUE, FALSE, "-"),
      GatewayAnswer(FALSE, 500, TRUE, FALSE, "-"),
      GatewayAnswer(FALSE, 500, FALSE, FALSE, "-") }

\* A request that carries the configured serial and the platform's signature
\* over its own timestamp, nonce and body.
Verified(req) ==
    /\ req.headers_present
    /\ req.serial = WxpayPublicKeyId
    /\ req.signature = Signature(WxpayPublicKey, req.timestamp, req.nonce, req.body)

\* A request whose body parses and whose resource decrypts under the API key to
\* a parsable record.
Readable(req) ==
    /\ req.body.json
    /\ req.body.resource.shape
    /\ req.body.resource.ciphertext.b64
    /\ req.body.resource.ciphertext.intact
    /\ req.body.resource.ciphertext.key = ApiV3Key
    /\ req.body.resource.ciphertext.nonce = req.body.resource.nonce
    /\ req.body.resource.ciphertext.aad = req.body.resource.associated_data
    /\ req.body.resource.ciphertext.plain.utf8
    /\ req.body.resource.ciphertext.plain.parse

\* A payment notification that says what the adapter is configured for: its
\* event type, and the resource's appid, mchid and trade_state.
Expected(req) ==
    /\ req.body.event_type = "TRANSACTION.SUCCESS"
    /\ req.body.resource.ciphertext.plain.appid = AppId
    /\ req.body.resource.ciphertext.plain.mchid = MchId
    /\ req.body.resource.ciphertext.plain.trade_state = "SUCCESS"

\* A refund notification for the configured merchant.
ExpectedRefund(req) ==
    req.body.resource.ciphertext.plain.mchid = MchId

\* ------------------------------------------------------------------- state

VARIABLES
    payments,   \* committed bokchoy.payments: id -> row
    refunds,    \* committed bokchoy.refunds: id -> row
    events,     \* committed bokchoy.payment_events, in insertion order
    conn,       \* per connection: the running handler and its open transaction
    left,       \* operations that may still commit
    hist,       \* history: what the committed operations were
    e2e,        \* history: progress along the end-to-end scenario
    calc,       \* a call of one of the pure functions: its arguments and result
    orders,     \* jidan.orders: id -> row
    ocall,      \* the running OrderService handler
    now         \* the store's clock, now()

jidan == <<orders, ocall, now>>

vars == <<payments, refunds, events, conn, left, hist, e2e, calc, jidan>>

Empty == [x \in {} |-> NULL]

\* A connection with no handler running and no transaction open.
Idle ==
    [pc |-> "idle", op |-> "none", key |-> NULL, pid |-> 0, rid |-> 0, amount |-> 0,
     tno |-> NULL, time |-> NULL, status |-> NULL, raw |-> NULL, refund_no |-> NULL,
     verified |-> FALSE, readable |-> FALSE, expected |-> FALSE,
     res |-> NoResponse, wp |-> Empty, wr |-> Empty, we |-> <<>>, ret |-> NULL]

\* What connection c's statements see: committed rows and its own writes.
PView(c) == conn[c].wp @@ payments
RView(c) == conn[c].wr @@ refunds

\* uuidv7() / Uuid::now_v7(): an id nobody holds; the model takes the least one.
FreshPid ==
    LET used == DOMAIN payments \cup UNION { DOMAIN conn[c].wp : c \in DOMAIN conn }
    IN  CHOOSE n \in 1 .. MaxIds + 1 : n \notin used /\ \A m \in 1 .. n - 1 : m \in used
FreshRid ==
    LET used == DOMAIN refunds \cup { conn[c].rid : c \in DOMAIN conn }
    IN  CHOOSE n \in 1 .. MaxIds + 1 : n \notin used /\ \A m \in 1 .. n - 1 : m \in used

\* Row locks: an UPDATE waits while another open transaction has written the row.
PaymentLocked(c, id) == \E d \in DOMAIN conn \ {c} : id \in DOMAIN conn[d].wp
RefundLocked(c, id) == \E d \in DOMAIN conn \ {c} : id \in DOMAIN conn[d].wr

\* payments.provider_trade_no is UNIQUE: a write of tno to row id waits for an
\* open transaction that touches another row holding tno, and fails when a
\* visible other row holds it.
UniqueWaits(c, id, tno) ==
    \E d \in DOMAIN conn \ {c} : \E q \in DOMAIN conn[d].wp :
        /\ q # id
        /\ \/ conn[d].wp[q].provider_trade_no = tno
           \/ q \in DOMAIN payments /\ payments[q].provider_trade_no = tno
\* Fault: the column carries no UNIQUE constraint.
UniqueViolation_NoConstraint(c, id, tno) == FALSE

UniqueViolation(c, id, tno) ==
    \E q \in DOMAIN PView(c) : q # id /\ PView(c)[q].provider_trade_no = tno

Set(c, rec) == conn' = [conn EXCEPT ![c] = rec]

\* The handler panicked: nothing more runs in it and its locals are gone; the
\* transaction stays open with what it wrote until the caller drops it.
Panicked(c, rec) ==
    Set(c, [Idle EXCEPT !.pc = "panicked", !.op = rec.op, !.key = rec.key, !.pid = rec.pid,
                        !.verified = rec.verified, !.readable = rec.readable,
                        !.expected = rec.expected,
                        !.wp = rec.wp, !.wr = rec.wr, !.we = rec.we])

\* No pure function has been called, and no OrderService handler runs.
NoCalc == [fn |-> "none"]

\* An OrderService connection on which no handler runs.
NoOrderCall ==
    [pc |-> "idle", op |-> "none", id |-> 0, amount |-> 0,
     current_status |-> NULL, current_amount |-> 0, bound |-> 0,
     rows_affected |-> 0, ret |-> NULL]

InitJidan ==
    /\ orders = Empty
    /\ ocall = [c \in {1} |-> NoOrderCall]
    /\ now = 0

InitStore ==
    /\ payments = Empty
    /\ refunds = Empty
    /\ events = <<>>
    /\ hist = [recorded |-> {}, called |-> {}, last |-> Idle]
    /\ e2e = [stage |-> 0, pid |-> 0, rid |-> 0]
    /\ calc = NoCalc
    /\ InitJidan

Init ==
    /\ InitStore
    /\ conn = [c \in {1} |-> Idle]
    /\ left = MaxOps

\* ------------------------------------------- record_successful_payment

\* INSERT INTO payments (status = Success, refunded_amount = 0, ...); a store
\* error is returned as Err.
RecordSuccessfulPayment(c) ==
    /\ conn[c].pc = "idle"
    /\ left > 0 /\ FreshPid <= MaxIds
    /\ \E amount \in PayAmounts, provider \in Provider, tno \in TradeNos, t \in {"t1"} :
        /\ ~UniqueWaits(c, FreshPid, tno)
        /\ LET me == [Idle EXCEPT !.op = "record_successful_payment", !.amount = amount,
                                  !.key = provider, !.tno = tno, !.time = t]
               row == [status |-> "Success", amount |-> amount, refunded_amount |-> 0,
                       biz_id |-> "biz", provider |-> provider,
                       provider_trade_no |-> tno, success_at |-> t]
           IN  IF UniqueViolation(c, FreshPid, tno)
               THEN Set(c, [me EXCEPT !.pc = "failed", !.ret = "Err"])
               ELSE Set(c, [me EXCEPT !.pc = "done", !.ret = "Ok", !.pid = FreshPid,
                                      !.wp = (FreshPid :> row)])
    /\ UNCHANGED <<payments, refunds, events, left, hist, e2e, calc, jidan>>

\* ------------------------------------------------------------------ pay

\* Fault: pay inserts the Payment already in Success.
PayInsert_Success(c) ==
    /\ conn[c].pc = "idle"
    /\ left > 0 /\ FreshPid <= MaxIds
    /\ \E amount \in PayAmounts :
        Set(c, [Idle EXCEPT !.op = "pay", !.key = "WxpayJsapi", !.amount = amount,
                           !.pc = "pay_adapter", !.pid = FreshPid,
                           !.wp = (FreshPid :> [status |-> "Success", amount |-> amount,
                                                refunded_amount |-> 0, biz_id |-> "biz",
                                                provider |-> "WxpayJsapi",
                                                provider_trade_no |-> NULL,
                                                success_at |-> NULL])])
    /\ UNCHANGED <<payments, refunds, events, left, hist, e2e, calc, jidan>>

\* Fault: the adapter is looked up after the Payment has been inserted.
PayInsert_LookupAfterInsert(c) ==
    /\ conn[c].pc = "idle"
    /\ left > 0 /\ FreshPid <= MaxIds
    /\ \E key \in Provider, amount \in PayAmounts :
        LET me == [Idle EXCEPT !.op = "pay", !.key = key, !.amount = amount,
                               !.pid = FreshPid,
                               !.wp = (FreshPid :> [status |-> "Pending", amount |-> amount,
                                                    refunded_amount |-> 0, biz_id |-> "biz",
                                                    provider |-> key,
                                                    provider_trade_no |-> NULL,
                                                    success_at |-> NULL])]
        IN  IF key \notin Registered
            THEN Panicked(c, me)
            ELSE Set(c, [me EXCEPT !.pc = "pay_adapter"])
    /\ UNCHANGED <<payments, refunds, events, left, hist, e2e, calc, jidan>>

\* providers.get(&key).unwrap(); INSERT INTO payments (status = Pending) RETURNING id
PayInsert(c) ==
    /\ conn[c].pc = "idle"
    /\ left > 0 /\ FreshPid <= MaxIds
    /\ \E key \in Provider, amount \in PayAmounts, stored \in BOOLEAN :
        LET me == [Idle EXCEPT !.op = "pay", !.key = key, !.amount = amount]
            row == [status |-> "Pending", amount |-> amount, refunded_amount |-> 0,
                    biz_id |-> "biz", provider |-> key,
                    provider_trade_no |-> NULL, success_at |-> NULL]
        IN  IF key \notin Registered \/ ~stored       \* .unwrap() on either
            THEN Panicked(c, me)
            ELSE Set(c, [me EXCEPT !.pc = "pay_adapter", !.pid = FreshPid,
                                   !.wp = (FreshPid :> row)])
    /\ UNCHANGED <<payments, refunds, events, left, hist, e2e, calc, jidan>>

\* provider.pay(id, req).await
PayAdapter(c) ==
    /\ conn[c].pc = "pay_adapter"
    /\ \E openid \in BOOLEAN, gw \in PayGateway :
        IF pay_adapter(openid, gw).panic
        THEN Panicked(c, conn[c])
        ELSE Set(c, [conn[c] EXCEPT !.pc = "pay_event"])
    /\ UNCHANGED <<payments, refunds, events, left, hist, e2e, calc, jidan>>

\* Fault: pay returns without inserting its event.
PayEvent_NoInsert(c) ==
    /\ conn[c].pc = "pay_event"
    /\ Set(c, [conn[c] EXCEPT !.pc = "done", !.ret = "PayResponse"])
    /\ UNCHANGED <<payments, refunds, events, left, hist, e2e, calc, jidan>>

\* INSERT INTO payment_events (kind = PaymentCreate); return res
PayEvent(c) ==
    /\ conn[c].pc = "pay_event"
    /\ \E stored \in BOOLEAN :
        IF ~stored                                      \* .execute(..).await.unwrap()
        THEN Panicked(c, conn[c])
        ELSE Set(c, [conn[c] EXCEPT !.pc = "done", !.ret = "PayResponse",
                 !.we = Append(@, [payment_id |-> conn[c].pid, kind |-> "PaymentCreate"])])
    /\ UNCHANGED <<payments, refunds, events, left, hist, e2e, calc, jidan>>

\* -------------------------------------------------- handle_pay_callback

\* providers.get(&key).unwrap(); provider.pay_callback(req).await
PayCallbackAdapter(c) ==
    /\ conn[c].pc = "idle"
    /\ left > 0
    /\ \E key \in Provider, req \in PayWebhooks(1 .. FreshPid) :
        LET me == [Idle EXCEPT !.op = "handle_pay_callback", !.key = key,
                               !.verified = Verified(req), !.readable = Readable(req),
                               !.expected = Verified(req) /\ Readable(req)
                                                /\ Expected(req)]
            outcome == pay_callback(req)
        IN  IF key \notin Registered \/ outcome.panic
            THEN Panicked(c, me)
            ELSE Set(c, [me EXCEPT !.pc = "paycb_update", !.pid = outcome.id,
                                   !.res = outcome.res,
                                   !.tno = outcome.provider_trade_no,
                                   !.time = outcome.success_at])
    /\ UNCHANGED <<payments, refunds, events, left, hist, e2e, calc, jidan>>

\* Fault: the callback rewrites the whole row and resets refunded_amount.
PayCallbackUpdate_ResetsRefunded(c) ==
    /\ conn[c].pc = "paycb_update"
    /\ conn[c].pid \in DOMAIN PView(c)
    /\ ~PaymentLocked(c, conn[c].pid)
    /\ Set(c, [conn[c] EXCEPT
            !.pc = "paycb_event",
            !.amount = PView(c)[conn[c].pid].amount,
            !.wp = (conn[c].pid :> [PView(c)[conn[c].pid] EXCEPT
                                       !.status = "Success",
                                       !.provider_trade_no = conn[c].tno,
                                       !.success_at = conn[c].time,
                                       !.refunded_amount = 0]) @@ @])
    /\ UNCHANGED <<payments, refunds, events, left, hist, e2e, calc, jidan>>

\* Fault: the callback marks the Payment Success without its success time.
PayCallbackUpdate_NoSuccessAt(c) ==
    /\ conn[c].pc = "paycb_update"
    /\ conn[c].pid \in DOMAIN PView(c)
    /\ ~PaymentLocked(c, conn[c].pid)
    /\ Set(c, [conn[c] EXCEPT
            !.pc = "paycb_event",
            !.amount = PView(c)[conn[c].pid].amount,
            !.wp = (conn[c].pid :> [PView(c)[conn[c].pid] EXCEPT
                                       !.status = "Success",
                                       !.provider_trade_no = conn[c].tno]) @@ @])
    /\ UNCHANGED <<payments, refunds, events, left, hist, e2e, calc, jidan>>

\* UPDATE payments SET status = Success, provider_trade_no, success_at,
\* updated_at WHERE id = outcome.id RETURNING biz_id, amount; fetch_one.unwrap()
PayCallbackUpdate(c) ==
    LET me == conn[c]
        id == me.pid
    IN  /\ me.pc = "paycb_update"
        /\ IF id \notin DOMAIN PView(c)
           THEN Panicked(c, me)
           ELSE /\ ~PaymentLocked(c, id)
                /\ ~UniqueWaits(c, id, me.tno)
                /\ IF UniqueViolation(c, id, me.tno)
                   THEN Panicked(c, me)
                   ELSE Set(c, [me EXCEPT
                            !.pc = "paycb_event",
                            !.amount = PView(c)[id].amount,
                            !.wp = (id :> [PView(c)[id] EXCEPT
                                              !.status = "Success",
                                              !.provider_trade_no = me.tno,
                                              !.success_at = me.time]) @@ @])
        /\ UNCHANGED <<payments, refunds, events, left, hist, e2e, calc, jidan>>

\* Fault: the acknowledgement is returned before the event is inserted.
PayCallbackEvent_AckFirst(c) ==
    /\ conn[c].pc = "paycb_event"
    /\ Set(c, [conn[c] EXCEPT !.pc = "done", !.ret = "ack"])
    /\ UNCHANGED <<payments, refunds, events, left, hist, e2e, calc, jidan>>

\* INSERT INTO payment_events (kind = PaymentCallback); return (result, outcome.res)
PayCallbackEvent(c) ==
    /\ conn[c].pc = "paycb_event"
    /\ Set(c, [conn[c] EXCEPT !.pc = "done", !.ret = "ack",
                 !.we = Append(@, [payment_id |-> conn[c].pid, kind |-> "PaymentCallback"])])
    /\ UNCHANGED <<payments, refunds, events, left, hist, e2e, calc, jidan>>

\* ----------------------------------------------- handle_refund_callback

\* providers.get(&key).unwrap(); provider.refund_callback(req).await
RefundCallbackAdapter(c) ==
    /\ conn[c].pc = "idle"
    /\ left > 0
    /\ \E key \in Provider, req \in RefundWebhooks(1 .. FreshRid) :
        LET me == [Idle EXCEPT !.op = "handle_refund_callback", !.key = key,
                               !.verified = Verified(req), !.readable = Readable(req),
                               !.expected = Verified(req) /\ Readable(req)
                                                /\ ExpectedRefund(req)]
            outcome == refund_callback(req)
        IN  IF key \notin Registered \/ outcome.panic
            THEN Panicked(c, me)
            ELSE Set(c, [me EXCEPT !.pc = "rcb_update", !.rid = outcome.refund_id,
                                   !.res = outcome.res,
                                   !.status = outcome.status,
                                   !.raw = req.body.resource.ciphertext.plain.refund_status,
                                   !.refund_no = outcome.provider_refund_no,
                                   !.time = outcome.success_at])
    /\ UNCHANGED <<payments, refunds, events, left, hist, e2e, calc, jidan>>

\* UPDATE refunds r SET status, success_at, updated_at FROM payments p
\* WHERE r.id = outcome.refund_id AND r.payment_id = p.id
\* RETURNING r.payment_id, r.amount, ...; fetch_one.unwrap()
RefundCallbackUpdate(c) ==
    LET me == conn[c]
        id == me.rid
    IN  /\ me.pc = "rcb_update"
        /\ IF id \notin DOMAIN RView(c)
           THEN Panicked(c, me)
           ELSE /\ ~RefundLocked(c, id)
                /\ Set(c, [me EXCEPT
                        !.pc = IF me.status = "Success" THEN "rcb_payment" ELSE "rcb_event",
                        !.pid = RView(c)[id].payment_id,
                        !.amount = RView(c)[id].amount,
                        !.wr = (id :> [RView(c)[id] EXCEPT
                                          !.status = me.status,
                                          !.success_at = me.time]) @@ @])
        /\ UNCHANGED <<payments, refunds, events, left, hist, e2e, calc, jidan>>

\* Fault: the callback's increment neither waits for the row lock nor reads the
\* row again: it writes the committed value plus the amount.
RefundCallbackPayment_StaleRead(c) ==
    LET me == conn[c]
        id == me.pid
    IN  /\ me.pc = "rcb_payment"
        /\ IF me.time = NULL
           THEN Panicked(c, me)
           ELSE Set(c, [me EXCEPT
                    !.pc = "rcb_event",
                    !.wp = (id :> [payments[id] EXCEPT
                                      !.refunded_amount = @ + me.amount]) @@ @])
        /\ UNCHANGED <<payments, refunds, events, left, hist, e2e, calc, jidan>>

\* Fault: the callback adds the Payment's amount instead of the Refund's.
RefundCallbackPayment_AddsPaymentAmount(c) ==
    /\ conn[c].pc = "rcb_payment"
    /\ ~PaymentLocked(c, conn[c].pid)
    /\ IF conn[c].time = NULL
       THEN Panicked(c, conn[c])
       ELSE Set(c, [conn[c] EXCEPT
                !.pc = "rcb_event",
                !.wp = (conn[c].pid :> [PView(c)[conn[c].pid] EXCEPT
                                           !.refunded_amount = @ + PView(c)[conn[c].pid].amount])
                       @@ @])
    /\ UNCHANGED <<payments, refunds, events, left, hist, e2e, calc, jidan>>

\* if outcome.status == Success: UPDATE payments SET refunded_amount =
\* refunded_amount + amount, updated_at = outcome.success_at WHERE id = payment_id
\* (updated_at is NOT NULL: a null success_at fails the statement)
RefundCallbackPayment(c) ==
    LET me == conn[c]
        id == me.pid
    IN  /\ me.pc = "rcb_payment"
        /\ ~PaymentLocked(c, id)
        /\ IF me.time = NULL
           THEN Panicked(c, me)
           ELSE Set(c, [me EXCEPT
                    !.pc = "rcb_event",
                    !.wp = (id :> [PView(c)[id] EXCEPT
                                      !.refunded_amount = @ + me.amount]) @@ @])
        /\ UNCHANGED <<payments, refunds, events, left, hist, e2e, calc, jidan>>

\* INSERT INTO payment_events (kind = RefundCallback); return (result, outcome.res)
RefundCallbackEvent(c) ==
    /\ conn[c].pc = "rcb_event"
    /\ Set(c, [conn[c] EXCEPT !.pc = "done", !.ret = "ack",
                 !.we = Append(@, [payment_id |-> conn[c].pid, kind |-> "RefundCallback"])])
    /\ UNCHANGED <<payments, refunds, events, left, hist, e2e, calc, jidan>>

\* --------------------------------------------------------------- refund

\* Fault: a missing provider_trade_no is not looked at before the Refund insert.
RefundSelect_NoExpect(c) ==
    /\ conn[c].pc = "idle"
    /\ left > 0 /\ FreshRid <= MaxIds
    /\ \E payment_id \in 1 .. FreshPid, amount \in RefundAmounts :
        LET me == [Idle EXCEPT !.op = "refund", !.pid = payment_id, !.amount = amount]
            v == PView(c)
        IN  IF payment_id \notin DOMAIN v
            THEN Panicked(c, me)
            ELSE IF v[payment_id].provider \notin Registered
            THEN Panicked(c, [me EXCEPT !.key = v[payment_id].provider])
            ELSE Set(c, [me EXCEPT !.pc = "refund_insert",
                                   !.key = v[payment_id].provider,
                                   !.tno = v[payment_id].provider_trade_no,
                                   !.rid = FreshRid])
    /\ UNCHANGED <<payments, refunds, events, left, hist, e2e, calc, jidan>>

\* SELECT provider, amount, provider_trade_no FROM payments WHERE id; fetch_one
\* .unwrap(); providers.get(..).unwrap(); Uuid::now_v7(); provider_trade_no.expect(..)
RefundSelect(c) ==
    /\ conn[c].pc = "idle"
    /\ left > 0 /\ FreshRid <= MaxIds
    /\ \E payment_id \in 1 .. FreshPid, amount \in RefundAmounts :
        LET me == [Idle EXCEPT !.op = "refund", !.pid = payment_id, !.amount = amount]
            v == PView(c)
        IN  IF payment_id \notin DOMAIN v
            THEN Panicked(c, me)
            ELSE IF v[payment_id].provider \notin Registered
            THEN Panicked(c, [me EXCEPT !.key = v[payment_id].provider])
            ELSE IF v[payment_id].provider_trade_no = NULL
            THEN Panicked(c, [me EXCEPT !.key = v[payment_id].provider, !.rid = FreshRid])
            ELSE Set(c, [me EXCEPT !.pc = "refund_insert",
                                   !.key = v[payment_id].provider,
                                   !.tno = v[payment_id].provider_trade_no,
                                   !.rid = FreshRid])
    /\ UNCHANGED <<payments, refunds, events, left, hist, e2e, calc, jidan>>

\* INSERT INTO refunds (id, payment_id, amount, reason, status = Pending)
RefundInsert(c) ==
    LET me == conn[c]
        row == [payment_id |-> me.pid, provider_refund_no |-> NULL, amount |-> me.amount,
                status |-> "Pending", success_at |-> NULL]
    IN  /\ me.pc = "refund_insert"
        /\ Set(c, [me EXCEPT !.pc = "refund_adapter", !.wr = (me.rid :> row) @@ @])
        /\ UNCHANGED <<payments, refunds, events, left, hist, e2e, calc, jidan>>

\* Fault: every answer the adapter returns is classified Success.
RefundAdapter_AnyAnswerSuccess(c) ==
    /\ conn[c].pc = "refund_adapter"
    /\ \E gw \in RefundGateway :
        IF refund_adapter(gw).panic
        THEN Panicked(c, conn[c])
        ELSE Set(c, [conn[c] EXCEPT
                !.pc = "refund_upd_payment",
                !.status = "Success",
                !.raw = refund_adapter(gw).status,
                !.refund_no = refund_adapter(gw).provider_refund_no])
    /\ UNCHANGED <<payments, refunds, events, left, hist, e2e, calc, jidan>>

\* provider.refund(payment_id, req).await; status = Success iff res.status == "SUCCESS"
RefundAdapter(c) ==
    LET me == conn[c]
    IN  /\ me.pc = "refund_adapter"
        /\ \E gw \in RefundGateway :
            LET res == refund_adapter(gw)
            IN  IF res.panic
                THEN Panicked(c, me)
                ELSE LET status == IF res.status = "SUCCESS" THEN "Success" ELSE "Pending"
                     IN  Set(c, [me EXCEPT
                            !.pc = IF status = "Success" THEN "refund_upd_payment"
                                                         ELSE "refund_upd_refund",
                            !.status = status,
                            !.raw = res.status,
                            !.refund_no = res.provider_refund_no])
        /\ UNCHANGED <<payments, refunds, events, left, hist, e2e, calc, jidan>>

\* Fault: refund marks the Refund Success without touching the Payment.
RefundUpdatePayment_NoIncrement(c) ==
    /\ conn[c].pc = "refund_upd_payment"
    /\ ~PaymentLocked(c, conn[c].pid)
    /\ Set(c, [conn[c] EXCEPT !.pc = "refund_upd_refund"])
    /\ UNCHANGED <<payments, refunds, events, left, hist, e2e, calc, jidan>>

\* Fault: a Payment whose refunds reach its amount is moved to Refunded.
RefundUpdatePayment_MarksRefunded(c) ==
    LET me == conn[c]
        id == me.pid
        old == PView(c)[id]
        total == old.refunded_amount + me.amount
    IN  /\ me.pc = "refund_upd_payment"
        /\ ~PaymentLocked(c, id)
        /\ Set(c, [me EXCEPT
                !.pc = "refund_upd_refund",
                !.wp = (id :> [old EXCEPT
                                  !.refunded_amount = total,
                                  !.status = IF total >= old.amount THEN "Refunded" ELSE @])
                       @@ @])
        /\ UNCHANGED <<payments, refunds, events, left, hist, e2e, calc, jidan>>

\* UPDATE payments SET refunded_amount = refunded_amount + amount WHERE id = payment_id
RefundUpdatePayment(c) ==
    LET me == conn[c]
        id == me.pid
    IN  /\ me.pc = "refund_upd_payment"
        /\ ~PaymentLocked(c, id)
        /\ Set(c, [me EXCEPT
                !.pc = "refund_upd_refund",
                !.wp = (id :> [PView(c)[id] EXCEPT
                                  !.refunded_amount = @ + me.amount]) @@ @])
        /\ UNCHANGED <<payments, refunds, events, left, hist, e2e, calc, jidan>>

\* Fault: the Success branch forgets success_at = now().
RefundUpdateRefund_NoSuccessAt(c) ==
    /\ conn[c].pc = "refund_upd_refund"
    /\ Set(c, [conn[c] EXCEPT
            !.pc = "refund_event",
            !.wr = (conn[c].rid :> [RView(c)[conn[c].rid] EXCEPT
                                       !.provider_refund_no = conn[c].refund_no,
                                       !.status = conn[c].status]) @@ @])
    /\ UNCHANGED <<payments, refunds, events, left, hist, e2e, calc, jidan>>

\* UPDATE refunds SET provider_refund_no, status [, success_at = now()] WHERE id = refund_id
RefundUpdateRefund(c) ==
    LET me == conn[c]
        id == me.rid
        row == RView(c)[id]
    IN  /\ me.pc = "refund_upd_refund"
        /\ Set(c, [me EXCEPT
                !.pc = "refund_event",
                !.wr = (id :> [row EXCEPT
                                  !.provider_refund_no = me.refund_no,
                                  !.status = me.status,
                                  !.success_at = IF me.status = "Success" THEN Now ELSE @])
                       @@ @])
        /\ UNCHANGED <<payments, refunds, events, left, hist, e2e, calc, jidan>>

\* INSERT INTO payment_events (kind = PaymentRefund); return res
RefundEvent(c) ==
    /\ conn[c].pc = "refund_event"
    /\ Set(c, [conn[c] EXCEPT !.pc = "done", !.ret = "RefundResponse",
                 !.we = Append(@, [payment_id |-> conn[c].pid, kind |-> "PaymentRefund"])])
    /\ UNCHANGED <<payments, refunds, events, left, hist, e2e, calc, jidan>>

\* ------------------------------------------------- the caller's transaction

\* What a committed operation was, without the rows it wrote.
Digest(me) == [me EXCEPT !.pc = "idle", !.wp = Empty, !.wr = Empty, !.we = <<>>]

\* History kept at commit: the payments record_successful_payment inserted, the
\* payments a verified payment callback took effect for, and the last
\* committed operation.
HistAfter(me) ==
    [recorded |-> IF me.op = "record_successful_payment"
                  THEN hist.recorded \cup {me.pid} ELSE hist.recorded,
     called |-> IF me.op = "handle_pay_callback" /\ me.verified
                THEN hist.called \cup {me.pid} ELSE hist.called,
     last |-> Digest(me)]

Off == [stage |-> 9, pid |-> 0, rid |-> 0]

\* History kept at commit: the end-to-end scenario pay(100); success callback;
\* refund(40) answered SUCCESS; refund callback CLOSED, with nothing in between.
E2EAfter(me) ==
    IF e2e.stage = 0 /\ me.op = "pay" /\ me.amount = 100
    THEN [stage |-> 1, pid |-> me.pid, rid |-> 0]
    ELSE IF e2e.stage = 1 /\ me.op = "handle_pay_callback" /\ me.pid = e2e.pid
    THEN [e2e EXCEPT !.stage = 2]
    ELSE IF /\ e2e.stage = 2 /\ me.op = "refund" /\ me.pid = e2e.pid
            /\ me.amount = 40 /\ me.raw = "SUCCESS"
    THEN [e2e EXCEPT !.stage = 3, !.rid = me.rid]
    ELSE IF /\ e2e.stage = 3 /\ me.op = "handle_refund_callback" /\ me.rid = e2e.rid
            /\ me.raw = "CLOSED"
    THEN [e2e EXCEPT !.stage = 4]
    ELSE Off

\* Fault: the ledger keeps one event per Payment, replaced by the newest.
Commit_LatestEventPerPayment(c) ==
    LET me == conn[c]
        Replaced(e) == \A i \in DOMAIN me.we : me.we[i].payment_id # e.payment_id
    IN  /\ me.pc = "done"
        /\ left > 0
        /\ payments' = me.wp @@ payments
        /\ refunds' = me.wr @@ refunds
        /\ events' = SelectSeq(events, Replaced) \o me.we
        /\ hist' = HistAfter(me)
        /\ e2e' = E2EAfter(me)
        /\ UNCHANGED <<calc, jidan>>
        /\ left' = left - 1
        /\ Set(c, Idle)

\* The handler returned and the caller commits: the transaction's rows become
\* visible together.
Commit(c) ==
    LET me == conn[c]
    IN  /\ me.pc = "done"
        /\ left > 0
        /\ payments' = me.wp @@ payments
        /\ refunds' = me.wr @@ refunds
        /\ events' = events \o me.we
        /\ hist' = HistAfter(me)
        /\ e2e' = E2EAfter(me)
        /\ UNCHANGED <<calc, jidan>>
        /\ left' = left - 1
        /\ Set(c, Idle)

\* Fault: no enclosing transaction; what a stopped handler wrote stays.
Rollback_KeepsWrites(c) ==
    /\ conn[c].pc \in {"done", "failed", "panicked"}
    /\ payments' = conn[c].wp @@ payments
    /\ refunds' = conn[c].wr @@ refunds
    /\ events' = events \o conn[c].we
    /\ Set(c, Idle)
    /\ UNCHANGED <<left, hist, e2e, calc, jidan>>

\* The transaction is dropped: after a panic or an Err, or because the caller
\* gives up its unit of work.
Rollback(c) ==
    /\ conn[c].pc \in {"done", "failed", "panicked"}
    /\ Set(c, Idle)
    /\ UNCHANGED <<payments, refunds, events, left, hist, e2e, calc, jidan>>

Next ==
    \E c \in DOMAIN conn :
        \/ RecordSuccessfulPayment(c)
        \/ PayInsert(c)
        \/ PayAdapter(c)
        \/ PayEvent(c)
        \/ PayCallbackAdapter(c)
        \/ PayCallbackUpdate(c)
        \/ PayCallbackEvent(c)
        \/ RefundCallbackAdapter(c)
        \/ RefundCallbackUpdate(c)
        \/ RefundCallbackPayment(c)
        \/ RefundCallbackEvent(c)
        \/ RefundSelect(c)
        \/ RefundInsert(c)
        \/ RefundAdapter(c)
        \/ RefundUpdatePayment(c)
        \/ RefundUpdateRefund(c)
        \/ RefundEvent(c)
        \/ Commit(c)
        \/ Rollback(c)

Spec == Init /\ [][Next]_vars

\* Two connections, each running one handler at a time in its own transaction,
\* against a store in which record_successful_payment has committed one payment:
\* refunds and refund callbacks race on that payment's row.
RecordedPayment ==
    [Idle EXCEPT !.op = "record_successful_payment", !.amount = 100, !.key = "WxpayJsapi",
                 !.tno = "T1", !.time = "t1", !.ret = "Ok", !.pid = 1]

InitConc ==
    /\ payments = (1 :> [status |-> "Success", amount |-> 100, refunded_amount |-> 0,
                         biz_id |-> "biz", provider |-> "WxpayJsapi",
                         provider_trade_no |-> "T1", success_at |-> "t1"])
    /\ refunds = Empty
    /\ events = <<>>
    /\ hist = [recorded |-> {1}, called |-> {}, last |-> RecordedPayment]
    /\ e2e = Off
    /\ calc = NoCalc
    /\ InitJidan
    /\ conn = [c \in {1, 2} |-> Idle]
    /\ left = MaxConcOps

NextConc ==
    \E c \in DOMAIN conn :
        \/ RefundCallbackAdapter(c)
        \/ RefundCallbackUpdate(c)
        \/ RefundCallbackPayment(c)
        \/ RefundCallbackEvent(c)
        \/ RefundSelect(c)
        \/ RefundInsert(c)
        \/ RefundAdapter(c)
        \/ RefundUpdatePayment(c)
        \/ RefundUpdateRefund(c)
        \/ RefundEvent(c)
        \/ Commit(c)
        \/ Rollback(c)

SpecConc == InitConc /\ [][NextConc]_vars

\* Two connections against a store in which record_successful_payment has
\* committed one payment and refund, answered PROCESSING, one Pending refund of
\* 40 on it: refunds and callbacks about that refund race on the payment's row.
MaxRaceOps == 2

PendingRefund ==
    [Idle EXCEPT !.op = "refund", !.key = "WxpayJsapi", !.pid = 1, !.rid = 1, !.amount = 40,
                 !.tno = "T1", !.status = "Pending", !.raw = "PROCESSING",
                 !.refund_no = "RF1", !.ret = "RefundResponse"]

InitRace ==
    /\ payments = (1 :> [status |-> "Success", amount |-> 100, refunded_amount |-> 0,
                         biz_id |-> "biz", provider |-> "WxpayJsapi",
                         provider_trade_no |-> "T1", success_at |-> "t1"])
    /\ refunds = (1 :> [payment_id |-> 1, provider_refund_no |-> "RF1", amount |-> 40,
                        status |-> "Pending", success_at |-> NULL])
    /\ events = <<[payment_id |-> 1, kind |-> "PaymentRefund"]>>
    /\ hist = [recorded |-> {1}, called |-> {}, last |-> PendingRefund]
    /\ e2e = Off
    /\ calc = NoCalc
    /\ InitJidan
    /\ conn = [c \in {1, 2} |-> Idle]
    /\ left = MaxRaceOps

SpecRace == InitRace /\ [][NextConc]_vars

\* Two connections against the same store, assigning trade numbers: payments
\* recorded as successful and payment callbacks race on the UNIQUE column.
NextTrade ==
    \E c \in DOMAIN conn :
        \/ RecordSuccessfulPayment(c)
        \/ PayCallbackAdapter(c)
        \/ PayCallbackUpdate(c)
        \/ PayCallbackEvent(c)
        \/ Commit(c)
        \/ Rollback(c)

SpecTrade == InitConc /\ [][NextTrade]_vars

\* ========================================================== pure functions
\* utils.rs and EncryptedResource::decrypt, called on arguments of their own.

\* thread_rng(): what the generator hands to one signing.
Rng == {1, 2}

\* Fault: a salted signature scheme, whose output depends on the generator.
sign_sha256_rsa_Salted(key, data, rng) ==
    [signer |-> key, msg |-> data, salt |-> rng]

\* utils.rs sign_sha256_rsa: SigningKey::<Sha256> is RSASSA-PKCS#1 v1.5, where
\* sign_with_rng uses the generator for blinding only.
sign_sha256_rsa(key, data, rng) ==
    [signer |-> key, msg |-> data]

\* BASE64_STANDARD.encode of a signature.
Base64(sign) == [b64 |-> TRUE] @@ sign

\* utils.rs pay_sign_inner: "{app_id}\n{timestamp}\n{nonce}\nprepay_id={prepay_id}\n"
pay_sign_inner(key, app_id, nonce, timestamp, prepay_id, rng) ==
    Base64(sign_sha256_rsa(key,
        app_id \o "\n" \o ToString(timestamp) \o "\n" \o nonce \o "\n"
               \o "prepay_id=" \o prepay_id \o "\n", rng))

\* Fault: the body is left out of the signed string.
get_sign_NoBody(key, method, uri, body, nonce, timestamp, rng) ==
    Base64(sign_sha256_rsa(key,
        method \o "\n" \o uri \o "\n" \o ToString(timestamp) \o "\n"
               \o nonce \o "\n", rng))

\* utils.rs get_sign: "{method}\n{uri}\n{timestamp}\n{nonce}\n{body}\n"
get_sign(key, method, uri, body, nonce, timestamp, rng) ==
    Base64(sign_sha256_rsa(key,
        method \o "\n" \o uri \o "\n" \o ToString(timestamp) \o "\n"
               \o nonce \o "\n" \o body \o "\n", rng))

\* Arguments of decrypt: resources holding a genuine encryption or a damaged
\* one, read with the same or other nonce and associated data, under a key.
DecryptKeys == {ApiV3Key, "other_key_0123456789abcdef012345"}
DecryptNonces == {"nonce_000001", "nonce_000002"}
DecryptAads == {"transaction", "refund"}
DecryptPlains ==
    { PlainResource(1, "T1", "t1"),
      PlainRefundResource(1, "RF1", "SUCCESS", "t1"),
      [PlainResource(1, "T1", "t1") EXCEPT !.utf8 = FALSE] }

DecryptCiphertexts ==
    LET genuine == { Encrypt(p, k, n, a) : p \in DecryptPlains, k \in DecryptKeys,
                                            n \in DecryptNonces, a \in DecryptAads }
    IN  genuine \cup { [c EXCEPT !.intact = FALSE] : c \in genuine }
                \cup { [c EXCEPT !.b64 = FALSE] : c \in genuine }

DecryptCalls ==
    { [fn |-> "decrypt", done |-> FALSE, out |-> NULL,
       arg |-> [key |-> k,
                res |-> [shape |-> TRUE, ciphertext |-> c, nonce |-> n,
                         associated_data |-> a]]] :
        k \in DecryptKeys \cup {"apiv3_key"}, c \in DecryptCiphertexts,
        n \in DecryptNonces \cup {"nonce_1"}, a \in DecryptAads }

\* Arguments of verify_response: bodies that end in nothing, in a byte that is
\* not UTF-8, or in U+FFFD, and signatures made over any of them.
VerifyBodies ==
    { [Body("TRANSACTION.SUCCESS", PlainResource(1, "T1", "t1")) EXCEPT !.tail = t] :
        t \in {<<>>, <<254>>, <<255>>, <<REPLACEMENT_CHARACTER>>} }

VerifySignatures ==
    LET made == { Signature(k, t, n, b) : k \in {WxpayPublicKey, "other_key"},
                    t \in {"ts1", "ts2"}, n \in {"hn1", "hn2"}, b \in VerifyBodies }
    IN  made \cup { [s EXCEPT !.b64 = FALSE] : s \in made }

VerifyCalls ==
    { [fn |-> "verify_response", done |-> FALSE, out |-> NULL,
       arg |-> [key |-> WxpayPublicKey, sign |-> s, timestamp |-> t, nonce |-> n,
                body |-> b]] :
        s \in VerifySignatures, t \in {"ts1", "ts2"}, n \in {"hn1", "hn2"},
        b \in VerifyBodies }

\* Arguments of pay_sign_inner, the published vector among them.
PaySignVector ==
    [key |-> "merchant_key", app_id |-> "wx2421b1c4370ec43b",
     nonce |-> "593BEC0C930BF1AFEB40B4A08C8FB242", timestamp |-> 1554208460,
     prepay_id |-> "wx201410272009395522657a690389285100"]

PaySignCalls ==
    { [fn |-> "pay_sign_inner", done |-> FALSE, out |-> NULL,
       arg |-> [key |-> k, app_id |-> a, nonce |-> n, timestamp |-> t,
                prepay_id |-> p]] :
        k \in {"merchant_key", "other_key"},
        a \in {PaySignVector.app_id, AppId},
        n \in {PaySignVector.nonce, "1554208460"},
        t \in {PaySignVector.timestamp, 1554208461},
        p \in {PaySignVector.prepay_id, "wx2"} }

\* Arguments of get_sign: the two requests the adapter signs, and others.
GetSignArgs ==
    [key : {"merchant_key", "other_key"},
     method : {"POST", "GET"},
     uri : {"/v3/pay/transactions/jsapi", "/v3/refund/domestic/refunds"},
     body : {"{}", "", "{}\n"},
     nonce : {"593BEC0C930BF1AFEB40B4A08C8FB242", "N2"},
     timestamp : {1554208460, 1554208461}]

GetSignCalls ==
    { [fn |-> "get_sign", done |-> FALSE, out |-> NULL, arg |-> a] : a \in GetSignArgs }

InitCrypto ==
    /\ payments = Empty
    /\ refunds = Empty
    /\ events = <<>>
    /\ hist = [recorded |-> {}, called |-> {}, last |-> Idle]
    /\ e2e = Off
    /\ conn = [c \in {1} |-> Idle]
    /\ left = 0
    /\ InitJidan
    /\ calc \in DecryptCalls \cup VerifyCalls \cup PaySignCalls \cup GetSignCalls

Returned(out) ==
    /\ ~calc.done
    /\ calc' = [calc EXCEPT !.done = TRUE, !.out = out]
    /\ UNCHANGED <<payments, refunds, events, conn, left, hist, e2e, jidan>>

Decrypt ==
    /\ calc.fn = "decrypt"
    /\ Returned(decrypt(calc.arg.res, calc.arg.key))

VerifyResponse ==
    /\ calc.fn = "verify_response"
    /\ Returned(verify_response(calc.arg.key, calc.arg.sign, calc.arg.timestamp,
                                calc.arg.nonce, calc.arg.body))

PaySignInner ==
    /\ calc.fn = "pay_sign_inner"
    /\ \E rng \in Rng :
        Returned(pay_sign_inner(calc.arg.key, calc.arg.app_id, calc.arg.nonce,
                                calc.arg.timestamp, calc.arg.prepay_id, rng))

GetSign ==
    /\ calc.fn = "get_sign"
    /\ \E rng \in Rng :
        Returned(get_sign(calc.arg.key, calc.arg.method, calc.arg.uri, calc.arg.body,
                          calc.arg.nonce, calc.arg.timestamp, rng))

NextCrypto ==
    \/ Decrypt
    \/ VerifyResponse
    \/ PaySignInner
    \/ GetSign

SpecCrypto == InitCrypto /\ [][NextCrypto]_vars

\* ============================================================ OrderService
\* jidan: every handler runs its statements on the connection it is given.
\* order_items and extra_info are not part of the state: no status or amount
\* depends on them.

\* enum OrderStatus
OrderStatus == {"Pending", "Processing", "Suspended", "Fulfilled",
                "Completed", "Canceled", "Closed", "Refunded"}

\* The statuses the enum documents as final.
Terminal == {"Completed", "Canceled", "Closed", "Refunded"}

\* CreateOrder as callers fill it: unit prices, Option fee, Option discount.
UnitPrices == {<<100>>, <<60, 40>>}
Fees == {<<>>}
Discounts == {<<>>, <<20>>}
PaymentAmounts == {40, 100}
OrderRefundAmounts == {40, 100}

RECURSIVE sum(_)
sum(xs) == IF xs = <<>> THEN 0 ELSE Head(xs) + sum(Tail(xs))

\* Option::unwrap_or
unwrap_or(opt, default) == IF opt = <<>> THEN default ELSE opt[1]

OSet(c, rec) == ocall' = [ocall EXCEPT ![c] = rec]

OStart(c) == ocall[c].pc = "idle" /\ left > 0

\* create_order_with_id: payable_amount = sum of unit prices + fee - discount;
\* INSERT INTO orders (status = Pending); paid_amount, refunded_amount and
\* expire_at take the column defaults.  A taken id fails the INSERT (`?`).
CreateOrderWithId(c) ==
    /\ OStart(c)
    /\ \E order_id \in 1 .. MaxOrders, items \in UnitPrices, fee \in Fees,
          discount \in Discounts :
        LET me == [NoOrderCall EXCEPT !.op = "create_order_with_id", !.id = order_id]
            total_items_amount == sum(items)
            payment_fee == unwrap_or(fee, 0)
            discount_amount == unwrap_or(discount, 0)
            payable_amount == total_items_amount + payment_fee - discount_amount
        IN  IF order_id \in DOMAIN orders
            THEN /\ OSet(c, [me EXCEPT !.pc = "failed", !.ret = "Err"])
                 /\ orders' = orders
            ELSE /\ OSet(c, [me EXCEPT !.pc = "done", !.ret = "Ok"])
                 /\ orders' = (order_id :> [status |-> "Pending",
                                            payable_amount |-> payable_amount,
                                            paid_amount |-> 0, refunded_amount |-> 0,
                                            expire_at |-> {}]) @@ orders
    /\ UNCHANGED <<payments, refunds, events, conn, left, hist, e2e, calc, now>>

\* UPDATE orders SET status, ... WHERE id = order_id
SetStatus(id, status) ==
    orders' = [o \in DOMAIN orders |->
                  IF o = id THEN [orders[o] EXCEPT !.status = status] ELSE orders[o]]

\* fulfill_order: UPDATE orders SET status = Fulfilled WHERE id
FulfillOrder(c) ==
    /\ OStart(c)
    /\ \E order_id \in 1 .. MaxOrders :
        /\ OSet(c, [NoOrderCall EXCEPT !.op = "fulfill_order", !.id = order_id,
                                       !.pc = "done", !.ret = "Ok"])
        /\ SetStatus(order_id, "Fulfilled")
    /\ UNCHANGED <<payments, refunds, events, conn, left, hist, e2e, calc, now>>

\* add_payment: SELECT status, paid_amount, payable_amount; fetch_one.unwrap();
\* panic unless Pending or Processing
AddPaymentSelect(c) ==
    /\ OStart(c)
    /\ \E order_id \in 1 .. MaxOrders, payment_amount \in PaymentAmounts :
        LET me == [NoOrderCall EXCEPT !.op = "add_payment", !.id = order_id,
                                      !.amount = payment_amount]
        IN  IF order_id \notin DOMAIN orders
            THEN OSet(c, [me EXCEPT !.pc = "panicked"])
            ELSE IF orders[order_id].status \notin {"Pending", "Processing"}
            THEN OSet(c, [me EXCEPT !.pc = "panicked"])
            ELSE OSet(c, [me EXCEPT !.pc = "add_payment_update",
                                   !.current_status = orders[order_id].status,
                                   !.current_amount = orders[order_id].paid_amount,
                                   !.bound = orders[order_id].payable_amount])
    /\ UNCHANGED <<payments, refunds, events, conn, left, hist, e2e, calc, orders, now>>

\* Fault: a payment that does not reach the payable amount leaves the status.
AddPaymentUpdate_KeepsStatus(c) ==
    LET me == ocall[c]
        new_paid_amount == me.current_amount + me.amount
        new_status == IF new_paid_amount >= me.bound THEN "Fulfilled"
                      ELSE me.current_status
    IN  /\ me.pc = "add_payment_update"
        /\ orders' = [o \in DOMAIN orders |->
                        IF o = me.id
                        THEN [orders[o] EXCEPT !.status = new_status,
                                               !.paid_amount = new_paid_amount]
                        ELSE orders[o]]
        /\ OSet(c, [me EXCEPT !.pc = "done", !.ret = "PaymentResult"])
        /\ UNCHANGED <<payments, refunds, events, conn, left, hist, e2e, calc, now>>

\* add_payment: new_paid_amount = current + payment_amount; Fulfilled if it
\* reaches payable_amount, else Processing; UPDATE orders SET status, paid_amount
AddPaymentUpdate(c) ==
    LET me == ocall[c]
        new_paid_amount == me.current_amount + me.amount
        new_status == IF new_paid_amount >= me.bound THEN "Fulfilled" ELSE "Processing"
    IN  /\ me.pc = "add_payment_update"
        /\ orders' = [o \in DOMAIN orders |->
                        IF o = me.id
                        THEN [orders[o] EXCEPT !.status = new_status,
                                               !.paid_amount = new_paid_amount]
                        ELSE orders[o]]
        /\ OSet(c, [me EXCEPT !.pc = "done", !.ret = "PaymentResult"])
        /\ UNCHANGED <<payments, refunds, events, conn, left, hist, e2e, calc, now>>

\* add_refund: SELECT status, paid_amount, refunded_amount; fetch_one.unwrap()
AddRefundSelect(c) ==
    /\ OStart(c)
    /\ \E order_id \in 1 .. MaxOrders, refund_amount \in OrderRefundAmounts :
        LET me == [NoOrderCall EXCEPT !.op = "add_refund", !.id = order_id,
                                      !.amount = refund_amount]
        IN  IF order_id \notin DOMAIN orders
            THEN OSet(c, [me EXCEPT !.pc = "panicked"])
            ELSE OSet(c, [me EXCEPT !.pc = "add_refund_update",
                                   !.current_status = orders[order_id].status,
                                   !.current_amount = orders[order_id].refunded_amount,
                                   !.bound = orders[order_id].paid_amount])
    /\ UNCHANGED <<payments, refunds, events, conn, left, hist, e2e, calc, orders, now>>

\* Fault: the refund is also taken off paid_amount.
AddRefundUpdate_LowersPaid(c) ==
    LET me == ocall[c]
        new_refunded_amount == me.current_amount + me.amount
        new_status == IF new_refunded_amount >= me.bound THEN "Refunded"
                      ELSE me.current_status
    IN  /\ me.pc = "add_refund_update"
        /\ orders' = [o \in DOMAIN orders |->
                        IF o = me.id
                        THEN [orders[o] EXCEPT !.status = new_status,
                                               !.refunded_amount = new_refunded_amount,
                                               !.paid_amount = @ - me.amount]
                        ELSE orders[o]]
        /\ OSet(c, [me EXCEPT !.pc = "done", !.ret = "RefundResult"])
        /\ UNCHANGED <<payments, refunds, events, conn, left, hist, e2e, calc, now>>

\* add_refund: new_refunded_amount = current + refund_amount; Refunded if it
\* reaches paid_amount, else the status read; UPDATE orders SET status,
\* refunded_amount
AddRefundUpdate(c) ==
    LET me == ocall[c]
        new_refunded_amount == me.current_amount + me.amount
        new_status == IF new_refunded_amount >= me.bound THEN "Refunded"
                      ELSE me.current_status
    IN  /\ me.pc = "add_refund_update"
        /\ orders' = [o \in DOMAIN orders |->
                        IF o = me.id
                        THEN [orders[o] EXCEPT !.status = new_status,
                                               !.refunded_amount = new_refunded_amount]
                        ELSE orders[o]]
        /\ OSet(c, [me EXCEPT !.pc = "done", !.ret = "RefundResult"])
        /\ UNCHANGED <<payments, refunds, events, conn, left, hist, e2e, calc, now>>

\* WHERE status = Pending AND expire_at IS NOT NULL AND expire_at < now()
Expired(o) ==
    /\ o.status = "Pending"
    /\ o.expire_at # {}
    /\ \A t \in o.expire_at : t < now

\* Fault: orders expiring at this very instant are canceled too.
CancelExpiredOrders_Inclusive(c) ==
    LET hit == {o \in DOMAIN orders :
                    /\ orders[o].status = "Pending"
                    /\ orders[o].expire_at # {}
                    /\ \A t \in orders[o].expire_at : t <= now}
    IN  /\ OStart(c)
        /\ orders' = [o \in DOMAIN orders |->
                        IF o \in hit THEN [orders[o] EXCEPT !.status = "Canceled"]
                        ELSE orders[o]]
        /\ OSet(c, [NoOrderCall EXCEPT !.op = "cancel_expired_orders", !.pc = "done",
                                       !.rows_affected = Cardinality(hit),
                                       !.ret = "rows_affected"])
        /\ UNCHANGED <<payments, refunds, events, conn, left, hist, e2e, calc, now>>

\* cancel_expired_orders: one UPDATE; returns result.rows_affected()
CancelExpiredOrders(c) ==
    LET hit == {o \in DOMAIN orders : Expired(orders[o])}
    IN  /\ OStart(c)
        /\ orders' = [o \in DOMAIN orders |->
                        IF o \in hit THEN [orders[o] EXCEPT !.status = "Canceled"]
                        ELSE orders[o]]
        /\ OSet(c, [NoOrderCall EXCEPT !.op = "cancel_expired_orders", !.pc = "done",
                                       !.rows_affected = Cardinality(hit),
                                       !.ret = "rows_affected"])
        /\ UNCHANGED <<payments, refunds, events, conn, left, hist, e2e, calc, now>>

\* complete_order: SELECT status; fetch_one(..)? ; panic unless Fulfilled
CompleteOrderSelect(c) ==
    /\ OStart(c)
    /\ \E order_id \in 1 .. MaxOrders :
        LET me == [NoOrderCall EXCEPT !.op = "complete_order", !.id = order_id]
        IN  IF order_id \notin DOMAIN orders
            THEN OSet(c, [me EXCEPT !.pc = "failed", !.ret = "Err"])
            ELSE IF orders[order_id].status # "Fulfilled"
            THEN OSet(c, [me EXCEPT !.pc = "panicked"])
            ELSE OSet(c, [me EXCEPT !.pc = "complete_order_update",
                                   !.current_status = orders[order_id].status])
    /\ UNCHANGED <<payments, refunds, events, conn, left, hist, e2e, calc, orders, now>>

\* complete_order: UPDATE orders SET status = Completed WHERE id
CompleteOrderUpdate(c) ==
    /\ ocall[c].pc = "complete_order_update"
    /\ SetStatus(ocall[c].id, "Completed")
    /\ OSet(c, [ocall[c] EXCEPT !.pc = "done", !.ret = "Ok"])
    /\ UNCHANGED <<payments, refunds, events, conn, left, hist, e2e, calc, now>>

\* close_order: UPDATE orders SET status = Closed WHERE id, with or without
\* the extra_info patch
CloseOrder(c) ==
    /\ OStart(c)
    /\ \E order_id \in 1 .. MaxOrders, extra_info_patch \in BOOLEAN :
        /\ OSet(c, [NoOrderCall EXCEPT !.op = "close_order", !.id = order_id,
                                       !.pc = "done", !.ret = "Ok"])
        /\ SetStatus(order_id, "Closed")
    /\ UNCHANGED <<payments, refunds, events, conn, left, hist, e2e, calc, now>>

\* The handler has returned or panicked; the connection is free again.
OrderReturn(c) ==
    /\ ocall[c].pc \in {"done", "failed", "panicked"}
    /\ left > 0
    /\ left' = left - 1
    /\ OSet(c, NoOrderCall)
    /\ UNCHANGED <<payments, refunds, events, conn, hist, e2e, calc, orders, now>>

\* now() advances.
Tick ==
    /\ now < MaxNow
    /\ now' = now + 1
    /\ UNCHANGED <<payments, refunds, events, conn, left, hist, e2e, calc, orders, ocall>>

\* expire_at is a nullable column that OrderService reads and never writes:
\* the application sets it on an order that is still Pending.
SetExpireAt ==
    /\ \E o \in DOMAIN orders, t \in 1 .. MaxNow :
        /\ orders[o].status = "Pending"
        /\ orders[o].expire_at = {}
        /\ orders' = [orders EXCEPT ![o].expire_at = {t}]
    /\ UNCHANGED <<payments, refunds, events, conn, left, hist, e2e, calc, ocall, now>>

InitOrder ==
    /\ payments = Empty
    /\ refunds = Empty
    /\ events = <<>>
    /\ hist = [recorded |-> {}, called |-> {}, last |-> Idle]
    /\ e2e = Off
    /\ conn = [c \in {1} |-> Idle]
    /\ calc = NoCalc
    /\ left = MaxOrderOps
    /\ InitJidan

NextOrder ==
    \/ \E c \in DOMAIN ocall :
        \/ CreateOrderWithId(c)
        \/ FulfillOrder(c)
        \/ AddPaymentSelect(c)
        \/ AddPaymentUpdate(c)
        \/ AddRefundSelect(c)
        \/ AddRefundUpdate(c)
        \/ CancelExpiredOrders(c)
        \/ CompleteOrderSelect(c)
        \/ CompleteOrderUpdate(c)
        \/ CloseOrder(c)
        \/ OrderReturn(c)
    \/ Tick
    \/ SetExpireAt

SpecOrder == InitOrder /\ [][NextOrder]_vars

\* Two connections against a store in which create_order has committed one
\* order of payable_amount 100: add_payment runs on both at once, each statement
\* on its own connection.
MaxPayOps == 3

InitOrderConc ==
    /\ payments = Empty
    /\ refunds = Empty
    /\ events = <<>>
    /\ hist = [recorded |-> {}, called |-> {}, last |-> Idle]
    /\ e2e = Off
    /\ conn = [c \in {1} |-> Idle]
    /\ calc = NoCalc
    /\ left = MaxPayOps
    /\ orders = (1 :> [status |-> "Pending", payable_amount |-> 100,
                       paid_amount |-> 0, refunded_amount |-> 0, expire_at |-> {}])
    /\ ocall = [c \in {1, 2} |-> NoOrderCall]
    /\ now = 0

NextOrderConc ==
    \E c \in DOMAIN ocall :
        \/ AddPaymentSelect(c)
        \/ AddPaymentUpdate(c)
        \/ OrderReturn(c)

SpecOrderConc == InitOrderConc /\ [][NextOrderConc]_vars

\* ======================================================= callback adapters
\* WxPayJsapi::pay_callback and refund_callback, called on requests of their own.

\* Requests with one defect, and requests that are wrong in transit and in
\* their body at once.
AdapterPayWebhooks ==
    LET base == Body("TRANSACTION.SUCCESS", PlainResource(1, "T1", "t1"))
        other == Body("TRANSACTION.SUCCESS", PlainResource(1, "T2", "t2"))
        bodies == BodyDefects(base) \cup ContentDefects(base)
                    \cup { [base EXCEPT !.event_type = "REFUND.SUCCESS"],
                           [base EXCEPT !.resource.ciphertext.plain.appid = "other_appid"],
                           [base EXCEPT !.resource.ciphertext.plain.trade_state = "CLOSED"] }
    IN  PayWebhooks(1 .. MaxIds)
            \cup UNION { TransportDefects(Webhook(b), other) : b \in bodies }

AdapterRefundWebhooks ==
    LET base == Body("REFUND.SUCCESS", PlainRefundResource(1, "RF1", "SUCCESS", "t1"))
        other == Body("REFUND.CLOSED", PlainRefundResource(1, "RF1", "CLOSED", NULL))
        bodies == BodyDefects(base) \cup ContentDefects(base)
        status(st) == Body("REFUND." \o st, PlainRefundResource(1, "RF1", st, NULL))
    IN  RefundWebhooks(1 .. MaxIds)
            \cup UNION { TransportDefects(Webhook(b), other) : b \in bodies }
            \cup { Webhook(status(st)) : st \in {"ABNORMAL", "PROCESSING", "UNKNOWN", ""} }

AdapterCalls ==
    { [fn |-> "pay_callback", done |-> FALSE, out |-> NULL, arg |-> req] :
        req \in AdapterPayWebhooks }
    \cup { [fn |-> "refund_callback", done |-> FALSE, out |-> NULL, arg |-> req] :
        req \in AdapterRefundWebhooks }

InitAdapter ==
    /\ payments = Empty
    /\ refunds = Empty
    /\ events = <<>>
    /\ hist = [recorded |-> {}, called |-> {}, last |-> Idle]
    /\ e2e = Off
    /\ conn = [c \in {1} |-> Idle]
    /\ left = 0
    /\ InitJidan
    /\ calc \in AdapterCalls

PayCallback ==
    /\ calc.fn = "pay_callback"
    /\ Returned(pay_callback(calc.arg))

RefundCallback ==
    /\ calc.fn = "refund_callback"
    /\ Returned(refund_callback(calc.arg))

NextAdapter ==
    \/ PayCallback
    \/ RefundCallback

SpecAdapter == InitAdapter /\ [][NextAdapter]_vars

\* ================================================================== claims

Callbacks == {"handle_pay_callback", "handle_refund_callback"}

\* A step that commits an operation.
Committing == left' < left

\* The event kind each operation is documented to append.
KindOf(op) ==
    CASE op = "pay" -> "PaymentCreate"
      [] op = "handle_pay_callback" -> "PaymentCallback"
      [] op = "refund" -> "PaymentRefund"
      [] op = "handle_refund_callback" -> "RefundCallback"
      [] OTHER -> "none"

\* C1: every committed Payment satisfies 0 <= refunded_amount <= amount.
C1_RefundedWithinAmount ==
    \A p \in DOMAIN payments :
        /\ 0 <= payments[p].refunded_amount
        /\ payments[p].refunded_amount <= payments[p].amount

\* C2: across every step, no Payment's refunded_amount decreases.
C2_RefundedNeverDecreases ==
    [][\A p \in DOMAIN payments :
          payments'[p].refunded_amount >= payments[p].refunded_amount]_vars

\* C3: in every step, a Refund becomes Success exactly together with the
\* increment of its Payment's refunded_amount by the Refund's amount: no
\* committed state, hence no other connection, has one without the other.
C3_StatusAndCounterTogether ==
    [][/\ \A r \in DOMAIN refunds' :
             (refunds'[r].status = "Success"
                /\ (r \notin DOMAIN refunds \/ refunds[r].status # "Success"))
             => LET p == refunds'[r].payment_id
                IN  /\ p \in DOMAIN payments
                    /\ payments'[p].refunded_amount
                          = payments[p].refunded_amount + refunds'[r].amount
       /\ \A p \in DOMAIN payments :
             payments'[p].refunded_amount # payments[p].refunded_amount
             => \E r \in DOMAIN refunds' :
                   /\ refunds'[r].payment_id = p
                   /\ refunds'[r].status = "Success"
                   /\ payments'[p].refunded_amount
                         = payments[p].refunded_amount + refunds'[r].amount]_vars

\* A refund was committed as Success with its increment while the other
\* connection had a transaction open on rows of its own.
C3_Witness ==
    /\ \E r \in DOMAIN refunds :
          /\ refunds[r].status = "Success"
          /\ payments[refunds[r].payment_id].refunded_amount = refunds[r].amount
    /\ \E c \in DOMAIN conn : conn[c].wr # Empty \/ conn[c].wp # Empty

\* C4: a provider_trade_no that has been assigned is not changed by any step.
C4_TradeNoNeverChanges ==
    [][\A p \in DOMAIN payments :
          payments[p].provider_trade_no # NULL
          => payments'[p].provider_trade_no = payments[p].provider_trade_no]_vars

C6_ReplayChangesNoCounter ==
    [][(Committing /\ hist.last.op \in Callbacks /\ hist'.last = hist.last)
          => \A p \in DOMAIN payments :
                /\ payments'[p].refunded_amount = payments[p].refunded_amount
                /\ payments'[p].status = payments[p].status]_vars

\* C7: a Refund in Success or Failed keeps its status in every step.
C7_RefundStatusTerminal ==
    [][\A r \in DOMAIN refunds :
          refunds[r].status \in {"Success", "Failed"}
          => refunds'[r].status = refunds[r].status]_vars

C9_InvalidWebhookRejected ==
    /\ \A c \in DOMAIN conn :
          (conn[c].op \in Callbacks /\ ~(conn[c].verified /\ conn[c].readable))
          => /\ conn[c].pc = "panicked"
             /\ conn[c].ret = NULL
             /\ conn[c].wp = Empty /\ conn[c].wr = Empty /\ conn[c].we = <<>>
    /\ hist.last.op \in Callbacks => hist.last.verified /\ hist.last.readable

\* A registered adapter refused an invalid request while a Payment and a Refund exist.
C9_Witness ==
    /\ DOMAIN payments # {} /\ DOMAIN refunds # {}
    /\ \E c \in DOMAIN conn :
          /\ conn[c].op \in Callbacks /\ conn[c].key \in Registered
          /\ conn[c].verified /\ ~conn[c].readable
          /\ conn[c].pc = "panicked"

\* C10: along pay(100); valid success callback; refund(40) answered SUCCESS;
\* refund callback CLOSED, the committed rows and events are the documented ones.
C10_EndToEnd ==
    LET p == payments[e2e.pid]
        r == refunds[e2e.rid]
        ev(k) == [payment_id |-> e2e.pid, kind |-> k]
    IN  /\ e2e.stage = 1 =>
            /\ p.status = "Pending" /\ p.amount = 100
            /\ events = <<ev("PaymentCreate")>>
        /\ e2e.stage = 2 =>
            /\ p.status = "Success" /\ p.success_at # NULL
            /\ events = <<ev("PaymentCreate"), ev("PaymentCallback")>>
        /\ e2e.stage = 3 =>
            /\ r.status = "Success" /\ p.refunded_amount = 40
            /\ events = <<ev("PaymentCreate"), ev("PaymentCallback"), ev("PaymentRefund")>>
        /\ e2e.stage = 4 =>
            /\ r.status = "Failed" /\ p.refunded_amount = 40
            /\ p.status = "Success"
            /\ events = <<ev("PaymentCreate"), ev("PaymentCallback"), ev("PaymentRefund"),
                          ev("RefundCallback")>>

C10_Witness == e2e.stage = 4

\* The operation a committing step commits, and the rows of the Payments and
\* Refunds other than the given one.
Last == hist'.last
OtherPaymentsKept(id) ==
    \A p \in DOMAIN payments \ {id} : payments'[p] = payments[p]
OtherRefundsKept(id) ==
    \A r \in DOMAIN refunds \ {id} : refunds'[r] = refunds[r]

\* C11: a committed pay adds exactly one Payment: Pending, refunded_amount 0,
\* no trade number, the requested amount, biz_id and provider; it appends one
\* PaymentCreate event for it and changes no other Payment and no Refund.
C11_PayPostcondition ==
    [][(Committing /\ Last.op = "pay") =>
          /\ DOMAIN payments' = DOMAIN payments \cup {Last.pid}
          /\ Last.pid \notin DOMAIN payments
          /\ payments'[Last.pid] =
                [status |-> "Pending", amount |-> Last.amount, refunded_amount |-> 0,
                 biz_id |-> "biz", provider |-> Last.key,
                 provider_trade_no |-> NULL, success_at |-> NULL]
          /\ OtherPaymentsKept(Last.pid)
          /\ refunds' = refunds
          /\ events' = Append(events, [payment_id |-> Last.pid, kind |-> "PaymentCreate"])]_vars

\* A pay has just been committed beside an older Payment.
C11_Witness ==
    /\ hist.last.op = "pay"
    /\ hist.last.pid \in DOMAIN payments
    /\ payments[hist.last.pid].status = "Pending"
    /\ DOMAIN payments \ {hist.last.pid} # {}

\* C12: once pay has failed (provider lookup, Payment insert, gateway call,
\* gateway answer, event insert) the only step left to its transaction is the
\* one that drops it, and that step leaves the committed Payments, Refunds and
\* events as they were: the Payment row it may have inserted is never visible.
C12_FailedPayPersistsNothing ==
    [][\A c \in DOMAIN conn :
          (conn[c].op = "pay" /\ conn[c].pc = "panicked") =>
             /\ conn[c].ret = NULL
             /\ conn[c].we = <<>>
             /\ \A p \in DOMAIN conn[c].wp : p \notin DOMAIN payments
             /\ conn'[c] # conn[c] =>
                   /\ conn'[c] = Idle
                   /\ payments' = payments /\ refunds' = refunds /\ events' = events]_vars

\* A pay failed after its INSERT INTO payments; the row is in its transaction only.
C12_Witness ==
    \E c \in DOMAIN conn :
        /\ conn[c].op = "pay" /\ conn[c].pc = "panicked"
        /\ conn[c].wp # Empty
        /\ DOMAIN payments # {}

\* C13: a committed handle_pay_callback changes exactly the Payment named by
\* the resource's out_trade_no: status Success, provider_trade_no and success_at
\* as the resource gives them; amount, refunded_amount, biz_id and provider stay,
\* every other Payment and every Refund stays, and one PaymentCallback event
\* for that Payment is appended.
C13_PayCallbackPostcondition ==
    [][(Committing /\ Last.op = "handle_pay_callback") =>
          /\ Last.pid \in DOMAIN payments
          /\ DOMAIN payments' = DOMAIN payments
          /\ payments'[Last.pid] = [payments[Last.pid] EXCEPT
                                       !.status = "Success",
                                       !.provider_trade_no = Last.tno,
                                       !.success_at = Last.time]
          /\ Last.tno \in TradeNos /\ Last.time \in Times
          /\ OtherPaymentsKept(Last.pid)
          /\ refunds' = refunds
          /\ events' = Append(events, [payment_id |-> Last.pid, kind |-> "PaymentCallback"])]_vars

\* A payment callback has just been committed for a Payment that carries a
\* refund already, beside another Payment.
C13_Witness ==
    /\ hist.last.op = "handle_pay_callback"
    /\ payments[hist.last.pid].status = "Success"
    /\ payments[hist.last.pid].provider_trade_no = hist.last.tno
    /\ payments[hist.last.pid].refunded_amount # 0
    /\ DOMAIN payments \ {hist.last.pid} # {}

\* C14: a committed refund that the gateway answered with status SUCCESS adds
\* one Refund row: Success, with the gateway's refund number and success_at
\* set, for the requested Payment and amount; that Payment's refunded_amount
\* grows by exactly the amount and nothing else of it changes.
C14_RefundSuccessPostcondition ==
    [][(Committing /\ Last.op = "refund" /\ Last.raw = "SUCCESS") =>
          /\ Last.rid \notin DOMAIN refunds
          /\ DOMAIN refunds' = DOMAIN refunds \cup {Last.rid}
          /\ OtherRefundsKept(Last.rid)
          /\ refunds'[Last.rid] =
                [payment_id |-> Last.pid, provider_refund_no |-> Last.refund_no,
                 amount |-> Last.amount, status |-> "Success", success_at |-> Now]
          /\ Last.refund_no \in RefundNos
          /\ payments'[Last.pid] = [payments[Last.pid] EXCEPT
                                       !.refunded_amount = @ + Last.amount]
          /\ OtherPaymentsKept(Last.pid)]_vars

\* A refund answered SUCCESS has been committed after another refund of the
\* same Payment, while the other connection is inside a handler.
C14_Witness ==
    /\ hist.last.op = "refund" /\ hist.last.raw = "SUCCESS"
    /\ refunds[hist.last.rid].status = "Success"
    /\ Cardinality(DOMAIN refunds) = 2
    /\ \E c \in DOMAIN conn : conn[c].pc \notin {"idle", "panicked"}

\* C15: a committed refund that the gateway answered with any other status
\* adds one Refund row in Pending, without success_at, and leaves every
\* Payment, refunded_amount and status included, as it was.
C15_RefundPendingPostcondition ==
    [][(Committing /\ Last.op = "refund" /\ Last.raw # "SUCCESS") =>
          /\ Last.rid \notin DOMAIN refunds
          /\ DOMAIN refunds' = DOMAIN refunds \cup {Last.rid}
          /\ OtherRefundsKept(Last.rid)
          /\ refunds'[Last.rid] =
                [payment_id |-> Last.pid, provider_refund_no |-> Last.refund_no,
                 amount |-> Last.amount, status |-> "Pending", success_at |-> NULL]
          /\ payments' = payments]_vars

\* A refund answered PROCESSING has been committed for a Payment that was
\* refunded in part before.
C15_Witness ==
    /\ hist.last.op = "refund" /\ hist.last.raw = "PROCESSING"
    /\ refunds[hist.last.rid].status = "Pending"
    /\ payments[hist.last.pid].refunded_amount # 0

\* C16: a refund that has called the gateway and has stopped, whatever the
\* gateway answered, has written one PaymentRefund event for its Payment.
C16_RefundEventWhateverTheOutcome ==
    \A c \in DOMAIN conn :
        (conn[c].op = "refund" /\ conn[c].wr # Empty
            /\ conn[c].pc \in {"done", "panicked"})
        => conn[c].we = <<[payment_id |-> conn[c].pid, kind |-> "PaymentRefund"]>>

\* C17: a committed handle_refund_callback sets the status (and success_at) of
\* the Refund named by out_refund_no as the callback maps it, adds that
\* Refund's amount to the owning Payment's refunded_amount if and only if the
\* mapped status is Success, changes no other row, and appends one
\* RefundCallback event for the owning Payment.
C17_RefundCallbackPostcondition ==
    [][(Committing /\ Last.op = "handle_refund_callback") =>
          /\ Last.rid \in DOMAIN refunds
          /\ DOMAIN refunds' = DOMAIN refunds
          /\ OtherRefundsKept(Last.rid)
          /\ Last.status = refund_status_of(Last.raw)
          /\ refunds'[Last.rid] = [refunds[Last.rid] EXCEPT
                                      !.status = Last.status, !.success_at = Last.time]
          /\ LET owner == refunds[Last.rid].payment_id
             IN  /\ payments'[owner] =
                       [payments[owner] EXCEPT
                           !.refunded_amount =
                               IF Last.status = "Success"
                               THEN @ + refunds[Last.rid].amount ELSE @]
                 /\ OtherPaymentsKept(owner)
                 /\ events' = Append(events, [payment_id |-> owner,
                                              kind |-> "RefundCallback"])]_vars

\* Callbacks mapped to Success and to Failed have both been committed: the
\* last one reported CLOSED for a Refund of 40 on a Payment refunded by 40.
C17_Witness ==
    /\ hist.last.op = "handle_refund_callback" /\ hist.last.status = "Failed"
    /\ refunds[hist.last.rid].status = "Failed"
    /\ refunds[hist.last.rid].amount = 40
    /\ payments[hist.last.pid].refunded_amount = 40
    /\ \E i \in DOMAIN events : i < Len(events) /\ events[i].kind = "RefundCallback"

\* C18: a step changes some Payment's refunded_amount only if it commits a
\* refund the gateway answered with SUCCESS or a refund callback mapped to
\* Success: pay, handle_pay_callback, record_successful_payment, a refund with
\* another answer and a refund callback mapped to Failed or Pending change none.
C18_RefundedChangedOnlyBySuccess ==
    [][(\E p \in DOMAIN payments :
            payments'[p].refunded_amount # payments[p].refunded_amount)
          => /\ Committing
             /\ \/ Last.op = "refund" /\ Last.raw = "SUCCESS"
                \/ Last.op = "handle_refund_callback" /\ Last.status = "Success"]_vars

\* A refund callback mapped to Pending has been committed for a Payment with
\* a refunded amount, after a payment callback for it.
C18_Witness ==
    /\ hist.last.op = "handle_refund_callback" /\ hist.last.status = "Pending"
    /\ payments[hist.last.pid].refunded_amount # 0
    /\ hist.last.pid \in hist.called

\* C19: every step leaves the events it found in place and in order: the
\* ledger only grows at its end, so each Payment's earlier sequence of events is
\* a prefix of its later one.
C19_EventsAppendOnly ==
    [][/\ Len(events') >= Len(events)
       /\ SubSeq(events', 1, Len(events)) = events]_vars

\* A Payment has three events in the ledger.
C19_Witness ==
    \E p \in DOMAIN payments :
        Cardinality({ i \in DOMAIN events : events[i].payment_id = p }) >= 3

\* C20: no two Payments hold the same non-null provider_trade_no, and a
\* record_successful_payment or handle_pay_callback that stopped on the
\* constraint (as on anything else) has written nothing.
C20_TradeNoUnique ==
    /\ \A p, q \in DOMAIN payments :
          (p # q /\ payments[p].provider_trade_no # NULL)
          => payments[p].provider_trade_no # payments[q].provider_trade_no
    /\ \A c \in DOMAIN conn :
          (conn[c].op \in {"record_successful_payment", "handle_pay_callback"}
              /\ conn[c].pc \in {"failed", "panicked"})
          => /\ conn[c].wp = Empty /\ conn[c].wr = Empty /\ conn[c].we = <<>>
             /\ conn[c].ret \in {NULL, "Err"}

\* A payment callback for an existing Payment stopped at its UPDATE: the trade
\* number it carries is held by another Payment; the other connection has an
\* uncommitted Payment row.
C20_Witness ==
    \E c \in DOMAIN conn :
        /\ conn[c].op = "handle_pay_callback" /\ conn[c].pc = "panicked"
        /\ conn[c].pid \in DOMAIN payments
        /\ \E q \in DOMAIN payments \ {conn[c].pid} : payments[q].provider_trade_no # NULL
        /\ \E d \in DOMAIN conn \ {c} : conn[d].wp # Empty

\* ------------------------------------------------------------------- C21
\* C21: decrypt returns the plaintext of a genuine encryption read under the
\* same key, nonce and associated data, and for every other input (wrong key,
\* wrong nonce, wrong associated data, damaged or non-base64 ciphertext) it
\* returns an error: it never aborts.
C21_DecryptRoundTripsOrRejects ==
    calc.fn = "decrypt" /\ calc.done =>
        LET a == calc.arg
            c == a.res.ciphertext
            genuine == c = Encrypt(c.plain, a.key, a.res.nonce, a.res.associated_data)
        IN  /\ ~calc.out.panic
            /\ genuine /\ c.plain.utf8 => calc.out.ok /\ calc.out.plain = c.plain
            /\ ~genuine => ~calc.out.ok

\* ------------------------------------------------------------------- C22
\* C22: verify_response accepts exactly when the signature is the base64
\* signature, made with the given key, of the timestamp, the nonce and the
\* body as received; the accepted signature verifies no other body.
C22_VerifyResponseExact ==
    calc.fn = "verify_response" /\ calc.done =>
        LET a == calc.arg
        IN  /\ calc.out <=> a.sign = Signature(a.key, a.timestamp, a.nonce, a.body)
            /\ calc.out =>
                \A b \in VerifyBodies \ {a.body} :
                    ~verify_response(a.key, a.sign, a.timestamp, a.nonce, b)

\* ------------------------------------------------------------------- C23
\* C23: the client-invocation signature depends on (key, app_id, timestamp,
\* nonce, prepay_id) only: it is the base64 signature, under the key, of
\* app_id, timestamp, nonce and "prepay_id=<prepay_id>", each followed by a
\* newline; for the published vector that is the reference string.
C23_PaySignDeterministic ==
    calc.fn = "pay_sign_inner" /\ calc.done =>
        LET a == calc.arg
        IN  /\ calc.out = [b64 |-> TRUE, signer |-> a.key,
                           msg |-> a.app_id \o "\n" \o ToString(a.timestamp) \o "\n"
                                   \o a.nonce \o "\n" \o "prepay_id=" \o a.prepay_id
                                   \o "\n"]
            /\ a = PaySignVector =>
                calc.out.msg = "wx2421b1c4370ec43b\n1554208460\n593BEC0C930BF1AFEB40B4A08C8FB242\nprepay_id=wx201410272009395522657a690389285100\n"

\* the published vector has been signed
C23_Witness ==
    /\ calc.fn = "pay_sign_inner"
    /\ calc.done
    /\ calc.arg = PaySignVector
    /\ calc.out.signer = "merchant_key"

\* ------------------------------------------------------------------- C24
\* C24: the request signature depends on (key, method, uri, timestamp, nonce,
\* body) only: it is the base64 signature, under the key, of method, uri,
\* timestamp, nonce and body in that order, each followed by a newline, and a
\* change to one of the five fields changes the signed string.
C24_GetSignDeterministic ==
    calc.fn = "get_sign" /\ calc.done =>
        LET a == calc.arg
            OneFieldChanged(b) ==
                /\ b.key = a.key
                /\ Cardinality({f \in {"method", "uri", "timestamp", "nonce", "body"} :
                                    b[f] # a[f]}) = 1
        IN  /\ calc.out = [b64 |-> TRUE, signer |-> a.key,
                           msg |-> a.method \o "\n" \o a.uri \o "\n"
                                   \o ToString(a.timestamp) \o "\n" \o a.nonce \o "\n"
                                   \o a.body \o "\n"]
            /\ \A b \in GetSignArgs :
                OneFieldChanged(b) =>
                    \A rng \in Rng :
                        get_sign(b.key, b.method, b.uri, b.body, b.nonce,
                                 b.timestamp, rng).msg # calc.out.msg

\* the adapter's payment request has been signed
C24_Witness ==
    /\ calc.fn = "get_sign"
    /\ calc.done
    /\ calc.arg.method = "POST"
    /\ calc.arg.uri = "/v3/pay/transactions/jsapi"
    /\ calc.arg.body = "{}"
    /\ calc.out.b64

\* ------------------------------------------------------------------- C25
\* C25: pay, handle_pay_callback, handle_refund_callback and refund for a
\* provider key without registered adapter stop at the lookup: the handler has
\* returned nothing and written no Payment, Refund or event in its
\* transaction, and the only step left drops the transaction with the
\* committed rows and events unchanged.
C25_UnknownProviderWritesNothing ==
    [][\A c \in DOMAIN conn :
          (/\ conn[c].op \in {"pay", "refund"} \cup Callbacks
           /\ conn[c].key \in Provider \ Registered) =>
             /\ conn[c].pc = "panicked"
             /\ conn[c].ret = NULL
             /\ conn[c].wp = Empty /\ conn[c].wr = Empty /\ conn[c].we = <<>>
             /\ conn'[c] # conn[c] =>
                   /\ conn'[c] = Idle
                   /\ payments' = payments /\ refunds' = refunds /\ events' = events]_vars

\* A refund of a recorded Payment whose provider has no adapter has stopped.
C25_Witness ==
    \E c \in DOMAIN conn :
        /\ conn[c].op = "refund"
        /\ conn[c].key \in Provider \ Registered
        /\ conn[c].pid \in DOMAIN payments
        /\ conn[c].pc = "panicked"

\* ------------------------------------------------------------------- C26
\* C26: when handle_pay_callback or handle_refund_callback has returned its
\* acknowledgement, that response has Content-Type application/json and the
\* JSON object {} as body, and the transaction already holds the callback's
\* update of the Payment (or of the Refund) and, as its last write, the
\* callback's event.
C26_AckAfterUpdateAndEvent ==
    \A c \in DOMAIN conn :
        (conn[c].op \in Callbacks /\ conn[c].ret # NULL) =>
            LET me == conn[c] IN
            /\ me.ret = "ack"
            /\ me.res.content_type = "application/json"
            /\ me.res.body = "{}"
            /\ me.we = <<[payment_id |-> me.pid, kind |-> KindOf(me.op)]>>
            /\ me.op = "handle_pay_callback" =>
                  /\ me.pid \in DOMAIN me.wp
                  /\ me.wp[me.pid].status = "Success"
            /\ me.op = "handle_refund_callback" =>
                  /\ me.rid \in DOMAIN me.wr
                  /\ me.wr[me.rid].status = me.status

\* A refund callback has returned its acknowledgement.
C26_Witness ==
    \E c \in DOMAIN conn :
        /\ conn[c].op = "handle_refund_callback"
        /\ conn[c].ret = "ack"
        /\ conn[c].res = Ack
        /\ conn[c].rid \in DOMAIN conn[c].wr

\* =========================================================== OrderService

\* The step in which connection c's handler `op` ends in state `pc`.
Ends(c, op, pc) ==
    /\ ocall'[c].op = op
    /\ ocall'[c].pc = pc
    /\ ocall[c].pc # pc

OtherOrdersKept(id) ==
    /\ DOMAIN orders' = DOMAIN orders
    /\ \A o \in DOMAIN orders \ {id} : orders'[o] = orders[o]

\* ------------------------------------------------------------------- C27
\* C27: add_payment that returns was called on an order in Pending or
\* Processing; it has added payment_amount to paid_amount and set the status to
\* Fulfilled if the new paid_amount reaches payable_amount and to Processing
\* otherwise, and changed nothing else.  Called on an order in any other
\* status (or on no order) it panics, and no order has changed.
C27_AddPayment ==
    [][\A c \in DOMAIN ocall :
          LET id == ocall'[c].id
              amount == ocall'[c].amount
              payable == id \in DOMAIN orders /\ orders[id].status \in {"Pending", "Processing"}
          IN  /\ Ends(c, "add_payment", "done") =>
                    /\ payable
                    /\ orders'[id] =
                          [orders[id] EXCEPT
                              !.paid_amount = orders[id].paid_amount + amount,
                              !.status = IF orders[id].paid_amount + amount
                                               >= orders[id].payable_amount
                                         THEN "Fulfilled" ELSE "Processing"]
                    /\ OtherOrdersKept(id)
              /\ Ends(c, "add_payment", "panicked") => ~payable /\ orders' = orders
              /\ Ends(c, "add_payment", "add_payment_update") => payable /\ orders' = orders
              /\ (ocall[c].op = "add_payment" /\ ocall[c].pc = "panicked"
                     /\ ocall'[c] # ocall[c]) =>
                    ocall'[c] = NoOrderCall /\ orders' = orders]_vars

\* A part payment has left an order in Processing with its amount recorded.
C27_Witness ==
    \E c \in DOMAIN ocall :
        /\ ocall[c].op = "add_payment" /\ ocall[c].pc = "done"
        /\ ocall[c].current_status = "Processing"
        /\ orders[ocall[c].id].status = "Processing"
        /\ orders[ocall[c].id].paid_amount = 80
        /\ orders[ocall[c].id].payable_amount = 100

\* ------------------------------------------------------------------- C28
\* C28: an order whose status is Completed, Canceled, Closed or Refunded
\* keeps that status in every step.
C28_TerminalNeverLeft ==
    [][\A o \in DOMAIN orders :
          orders[o].status \in Terminal => orders'[o].status = orders[o].status]_vars

\* ------------------------------------------------------------------- C29
\* C29: add_refund that returns has added refund_amount to refunded_amount and
\* set the status to Refunded if the new refunded_amount reaches paid_amount,
\* leaving the status as it was otherwise; paid_amount and everything else is
\* unchanged, in this step and in the handler's first one.
C29_AddRefund ==
    [][\A c \in DOMAIN ocall :
          LET id == ocall'[c].id
              amount == ocall'[c].amount
          IN  /\ Ends(c, "add_refund", "done") =>
                    /\ id \in DOMAIN orders
                    /\ orders'[id] =
                          [orders[id] EXCEPT
                              !.refunded_amount = orders[id].refunded_amount + amount,
                              !.status = IF orders[id].refunded_amount + amount
                                               >= orders[id].paid_amount
                                         THEN "Refunded" ELSE orders[id].status]
                    /\ orders'[id].paid_amount = orders[id].paid_amount
                    /\ OtherOrdersKept(id)
              /\ (ocall'[c].op = "add_refund" /\ ~Ends(c, "add_refund", "done")) =>
                    orders' = orders \/ ocall'[c] = ocall[c]]_vars

\* A part refund has left a paid order in its status.
C29_Witness ==
    \E c \in DOMAIN ocall :
        /\ ocall[c].op = "add_refund" /\ ocall[c].pc = "done"
        /\ orders[ocall[c].id].status = "Fulfilled"
        /\ orders[ocall[c].id].refunded_amount = 40
        /\ orders[ocall[c].id].paid_amount = 100

C31_DecryptOnlyAfterVerify ==
    (calc.fn \in {"pay_callback", "refund_callback"} /\ calc.done) =>
        LET req == calc.arg
            calls == calc.out.calls
            genuine == req.signature = Signature(WxpayPublicKey, req.timestamp,
                                                 req.nonce, req.body)
            At(f) == {i \in DOMAIN calls : calls[i] = f}
        IN  /\ \A d \in At("decrypt") : \E v \in At("verify_response") : v < d
            /\ At("decrypt") # {} => genuine
            /\ ~genuine => calc.out.panic

\* A request with a foreign signature around an undecryptable resource stopped
\* at the verification.
C31_Witness ==
    /\ calc.fn = "pay_callback" /\ calc.done
    /\ calc.arg.headers_present /\ calc.arg.serial = WxpayPublicKeyId
    /\ calc.arg.signature.signer # WxpayPublicKey
    /\ calc.arg.body.resource.ciphertext.key # ApiV3Key
    /\ calc.out.calls = <<"verify_response">>

\* ------------------------------------------------------------------- C32
\* C32: a request whose serial is not the configured platform key id, or that
\* lacks one of the four Wechatpay headers, is refused without verify_response
\* (or decrypt) being called.
C32_SerialBeforeVerify ==
    (calc.fn \in {"pay_callback", "refund_callback"} /\ calc.done) =>
        ((~calc.arg.headers_present \/ calc.arg.serial # WxpayPublicKeyId) =>
            /\ calc.out.panic
            /\ calc.out.calls = <<>>)

\* A request signed by the platform but presenting another serial was refused.
C32_Witness ==
    /\ calc.fn = "refund_callback" /\ calc.done
    /\ calc.arg.serial # WxpayPublicKeyId
    /\ calc.arg.headers_present /\ calc.arg.body.json
    /\ calc.arg.signature = Signature(WxpayPublicKey, calc.arg.timestamp,
                                      calc.arg.nonce, calc.arg.body)
    /\ calc.out.panic

\* ------------------------------------------------------------------- C33
\* C33: a payment callback whose request verifies and decrypts but whose event
\* type is not TRANSACTION.SUCCESS, or whose resource names another appid or
\* mchid or a trade_state other than SUCCESS, ends in a panic with no
\* acknowledgement and no Payment or event written; every committed payment
\* callback was for a request with the expected four values.
C33_UnexpectedContentRejected ==
    /\ \A c \in DOMAIN conn :
          (/\ conn[c].op = "handle_pay_callback"
           /\ conn[c].verified /\ conn[c].readable /\ ~conn[c].expected) =>
             /\ conn[c].pc = "panicked"
             /\ conn[c].ret = NULL /\ conn[c].res = NoResponse
             /\ conn[c].wp = Empty /\ conn[c].wr = Empty /\ conn[c].we = <<>>
    /\ \A c \in DOMAIN conn :
          (conn[c].op = "handle_pay_callback" /\ conn[c].wp # Empty) => conn[c].expected
    /\ hist.last.op = "handle_pay_callback" => hist.last.expected

\* A signed, decryptable notification of another state was refused while the
\* Payment it names is there.
C33_Witness ==
    /\ DOMAIN payments # {}
    /\ \E c \in DOMAIN conn :
          /\ conn[c].op = "handle_pay_callback" /\ conn[c].key \in Registered
          /\ conn[c].verified /\ conn[c].readable /\ ~conn[c].expected
          /\ conn[c].pc = "panicked"

\* ------------------------------------------------------------------- C34
\* C34: an accepted refund notification yields status Success for
\* refund_status SUCCESS, Failed for CLOSED and for ABNORMAL, and Pending for
\* every other string.
C34_RefundStatusMapping ==
    (calc.fn = "refund_callback" /\ calc.done /\ ~calc.out.panic) =>
        LET s == calc.arg.body.resource.ciphertext.plain.refund_status
        IN  /\ s = "SUCCESS" => calc.out.status = "Success"
            /\ s \in {"CLOSED", "ABNORMAL"} => calc.out.status = "Failed"
            /\ s \notin {"SUCCESS", "CLOSED", "ABNORMAL"} => calc.out.status = "Pending"

\* A notification with refund_status ABNORMAL was accepted.
C34_Witness ==
    /\ calc.fn = "refund_callback" /\ calc.done /\ ~calc.out.panic
    /\ calc.arg.body.resource.ciphertext.plain.refund_status = "ABNORMAL"
    /\ calc.out.status = "Failed"

\* ------------------------------------------------------------------- C35
\* C35: every Payment, committed or written inside an open transaction, has
\* status Pending or Success, and no step takes a Payment that is in Success
\* to another status, whatever its refunded_amount.
C35_PaymentStatusPendingOrSuccess ==
    /\ [](/\ \A id \in DOMAIN payments : payments[id].status \in {"Pending", "Success"}
          /\ \A c \in DOMAIN conn : \A id \in DOMAIN conn[c].wp :
                conn[c].wp[id].status \in {"Pending", "Success"})
    /\ [][/\ \A id \in DOMAIN payments :
                payments[id].status = "Success" =>
                    id \in DOMAIN payments' /\ payments'[id].status = "Success"
          /\ \A c \in DOMAIN conn : \A id \in DOMAIN payments \cap DOMAIN conn'[c].wp :
                payments[id].status = "Success" => conn'[c].wp[id].status = "Success"]_vars

\* A committed Payment in Success whose refunded_amount has reached its amount.
C35_Witness ==
    \E id \in DOMAIN payments :
        /\ payments[id].status = "Success"
        /\ payments[id].refunded_amount >= payments[id].amount
        /\ \E r \in DOMAIN refunds : refunds[r].payment_id = id /\ refunds[r].status = "Success"

\* ------------------------------------------------------------------- C36
\* The sum of the amounts of the Refund rows in rs.
RECURSIVE AmountOf(_)
AmountOf(rs) ==
    IF rs = {} THEN 0
    ELSE LET r == CHOOSE x \in rs : TRUE
         IN  refunds[r].amount + AmountOf(rs \ {r})

\* The committed Refund rows of Payment id that are in Success.
SuccessRefunds(id) ==
    { r \in DOMAIN refunds : refunds[r].payment_id = id /\ refunds[r].status = "Success" }

\* C36 as claimed: in every committed state each Payment's refunded_amount is
\* the sum of the amounts of its Refund rows in Success.
C36_RefundedIsSumOfSuccessRefunds ==
    \A id \in DOMAIN payments :
        payments[id].refunded_amount = AmountOf(SuccessRefunds(id))

\* ------------------------------------------------------------------- C38
\* The row has a provider trade number and a success time exactly when it is
\* in Success.
TradeNoIffSuccess(row) ==
    /\ row.provider_trade_no # NULL <=> row.status = "Success"
    /\ row.success_at # NULL <=> row.status = "Success"

\* C38: every Payment, committed or written inside an open transaction, has a
\* non-null provider_trade_no exactly when its status is Success, and a
\* success_at exactly then.
C38_TradeNoIffSuccess ==
    /\ \A id \in DOMAIN payments : TradeNoIffSuccess(payments[id])
    /\ \A c \in DOMAIN conn : \A id \in DOMAIN conn[c].wp :
          TradeNoIffSuccess(conn[c].wp[id])

\* A Payment still Pending stands beside one a committed payment callback has
\* moved to Success.
C38_Witness ==
    /\ hist.last.op = "handle_pay_callback"
    /\ hist.last.pid \in DOMAIN payments
    /\ payments[hist.last.pid].status = "Success"
    /\ payments[hist.last.pid].provider_trade_no = hist.last.tno
    /\ \E id \in DOMAIN payments :
          payments[id].status = "Pending" /\ payments[id].provider_trade_no = NULL

\* ------------------------------------------------------------------- C39
\* C39: a refund started on a payment id that does not exist, or on a Payment
\* without provider trade number, stops in its first step, before the Refund
\* insert and before the gateway call, with nothing written in its
\* transaction; the only step left to it drops the transaction and leaves the
\* committed Payments, Refunds and events as they were.
C39_RefundWithoutTradeNoFailsFirst ==
    [][\A c \in DOMAIN conn :
          /\ (/\ conn[c].pc = "idle" /\ conn'[c].op = "refund"
              /\ \/ conn'[c].pid \notin DOMAIN payments
                 \/ payments[conn'[c].pid].provider_trade_no = NULL) =>
                /\ conn'[c].pc = "panicked"
                /\ conn'[c].ret = NULL
                /\ conn'[c].wp = Empty /\ conn'[c].wr = Empty /\ conn'[c].we = <<>>
                /\ payments' = payments /\ refunds' = refunds /\ events' = events
          /\ (/\ conn[c].op = "refund" /\ conn[c].pc = "panicked"
              /\ conn[c].wr = Empty /\ conn'[c] # conn[c]) =>
                /\ conn'[c] = Idle
                /\ payments' = payments /\ refunds' = refunds /\ events' = events]_vars

\* A refund has stopped on a committed Payment that is still Pending and has
\* no provider trade number.
C39_Witness ==
    \E c \in DOMAIN conn :
        /\ conn[c].op = "refund" /\ conn[c].pc = "panicked"
        /\ conn[c].pid \in DOMAIN payments
        /\ payments[conn[c].pid].status = "Pending"
        /\ payments[conn[c].pid].provider_trade_no = NULL
        /\ conn[c].wr = Empty

\* ------------------------------------------------------------------- C37
\* C37: whatever the interleaving of refunds and refund callbacks on two
\* connections, every commit of one that ended in Success adds its amount to
\* the refunded_amount committed just before it, and no other step changes a
\* refunded_amount: after all of them commit the counter is its initial value
\* plus the amounts of all the successful ones.
C37_NoIncrementLost ==
    [][\A p \in DOMAIN payments :
          payments'[p].refunded_amount =
             payments[p].refunded_amount
               + (IF /\ Committing
                     /\ Last.op \in {"refund", "handle_refund_callback"}
                     /\ Last.status = "Success" /\ Last.pid = p
                  THEN Last.amount ELSE 0)]_vars

\* A refund holds its uncommitted increment of the Payment's row while a
\* callback reporting SUCCESS for another Refund of the same Payment waits to
\* add its own.
C37_Witness ==
    \E c, d \in DOMAIN conn :
        /\ conn[c].op = "refund" /\ conn[c].status = "Success"
        /\ 1 \in DOMAIN conn[c].wp
        /\ conn[c].wp[1].refunded_amount = payments[1].refunded_amount + conn[c].amount
        /\ conn[d].op = "handle_refund_callback" /\ conn[d].pc = "rcb_payment"
        /\ conn[d].pid = 1 /\ conn[d].rid = 1 /\ conn[d].time # NULL
        /\ PaymentLocked(d, 1)
\* ------------------------------------------------------------------- C40
\* C40 as claimed: when two add_payment calls on the same order, on different
\* connections, have both finished, paid_amount is the initial paid_amount (0)
\* plus both payment amounts, and the status is Fulfilled exactly when that
\* total reaches payable_amount.
C40_NoPaymentLost ==
    (/\ left = MaxPayOps
     /\ \A c \in DOMAIN ocall : ocall[c].op = "add_payment" /\ ocall[c].pc = "done"
     /\ ocall[1].id = ocall[2].id) =>
        LET o == orders[ocall[1].id]
            total == 0 + ocall[1].amount + ocall[2].amount
        IN  /\ o.paid_amount = total
            /\ o.status = "Fulfilled" <=> total >= o.payable_amount

====
